---------------------------- MODULE Spec2Model ----------------------------
(***************************************************************************)
(* A model of facad: the glyph classifier (emoji_utils.c), the two entry   *)
(* comparators (file_card.c, longlisting.c), the sort of main.c and the    *)
(* UTF-8 width calculator (display_utils.c).                               *)
(*                                                                         *)
(* Strings are TLA+ strings; a C string's i-th byte is SubSeq(s, i, i).    *)
(* Byte strings whose bytes are not ASCII are sequences of numbers 0..255. *)
(* Every component has its own variables and its own specification; a      *)
(* specification leaves the variables of the other components idle.        *)
(***************************************************************************)
EXTENDS Integers, Sequences, FiniteSets, TLC

VARIABLES
    w_str,      \* get_display_width: the bytes of str before its terminator
    w_pos,      \* get_display_width: index of the byte str points at (1-based)
    w_width,    \* get_display_width: the local variable width
    w_pc        \* "idle" | "loop" | "done" | "crashed"

w_vars == <<w_str, w_pos, w_width, w_pc>>

VARIABLES
    c_kind,     \* which comparator's entries are held: "idle" | "card" | "card3" | "long"
    c_a,        \* the comparators' operands: FileCardInfo or struct file_info records
    c_b,
    c_res,      \* results of the comparator of the view, <<>> before the calls
    c_old       \* results of file_entry.c's compare_file_entries, <<>> before the calls

c_vars == <<c_kind, c_a, c_b, c_res, c_old>>

VARIABLES
    entries,    \* main: the array of FileCardInfo, entries[1..num_entries]
    m_pc        \* main: "idle" | "gathered" | "sorted" | "empty"

m_vars == <<entries, m_pc>>

VARIABLES
    e_path,     \* get_emoji, get_dev_emoji: the path argument
    e_st,       \* the filesystem entry at e_path
    e_other,    \* the content of a second file of the same name and mode bits
    e_ret,      \* what the call for e_st returned
    e_ret2,     \* what the call for the second file returned
    e_pc        \* "idle" | "start" | "first" | "second" | "dev"

e_vars == <<e_path, e_st, e_other, e_ret, e_ret2, e_pc>>

VARIABLES
    d_entries,        \* display_entries: the entries array
    d_term_width,     \* its arguments term_width, current_dir and show_path
    d_dir,
    d_show_path,
    d_entry_widths,   \* entry_widths[0..num_entries-1] as a sequence, <<>> before
    d_num_columns,    \* the locals num_columns, rows, column_widths, row and col
    d_rows,
    d_column_widths,
    d_row,
    d_col,
    d_out,            \* what was written to standard output, in order
    d_err,            \* what was written to standard error, in order
    d_pc              \* "idle" | "start" | "layout" | "print" | "returned"

d_vars == <<d_entries, d_term_width, d_dir, d_show_path, d_entry_widths, d_num_columns,
            d_rows, d_column_widths, d_row, d_col, d_out, d_err, d_pc>>

VARIABLES
    r_argv,     \* main: argv[1..argc-1]
    r_args,     \* the CommandLineArgs parse_args returned, <<>> before
    r_fs,       \* the file system and the heap the run finds
    r_next,     \* the loop index i of main and of print_sorted_entries
    r_entries,  \* the entries gathered so far
    r_log,      \* the events of the run, in order
    r_exit,     \* main's return value, "none" while it runs
    r_pc        \* where main is

r_vars == <<r_argv, r_args, r_fs, r_next, r_entries, r_log, r_exit, r_pc>>

VARIABLES
    a_fn,           \* the function that is adding entries: "none" before the first call
    a_entries,      \* main's pointer entries: "NULL" | "heap"
    a_num_entries,  \* main's num_entries
    a_current_size, \* main's current_size
    a_sizes,        \* history: the capacities the array has had, oldest first
    a_calls,        \* history: the calls main has made so far
    a_pc            \* "idle" | "main" | "loop" | "write" | "failed" | "done"

a_vars == <<a_fn, a_entries, a_num_entries, a_current_size, a_sizes, a_calls, a_pc>>

vars == <<w_vars, c_vars, m_vars, e_vars, d_vars, r_vars, a_vars>>

-----------------------------------------------------------------------------
(* Bounds *)

MaxNameLen == 3     \* longest entry name given to compare_file_entries
MaxLongNameLen == 2 \* longest entry name given to compare_entries
MaxSize == 1        \* largest size of a struct file_info
MaxSubdirs == 1     \* largest subdir_count of a struct file_info
MaxEntries == 5     \* most entries main gathers before it sorts
MaxRuns == 2        \* most runs of equal bytes in a file's content
MaxDisplayEntries == 5  \* most entries given to display_entries
MaxArgs == 2        \* most command-line arguments after the program name
MaxListing == 2     \* most names readdir returns for a directory
MaxStrLen == 4      \* longest byte string given to get_display_width
MaxOobWidth == 2    \* most width units a scan can add after it left the string
MaxGathered == 1030 \* most entries a run adds to the entries array
MaxCalls == 3       \* most calls of process_target in a run

-----------------------------------------------------------------------------
(* The state of a component that is not running *)

WidthIdle == w_str = <<>> /\ w_pos = 1 /\ w_width = 0 /\ w_pc = "idle"

NoEntry == [name |-> "", is_directory |-> 0, is_hidden |-> 0]

MainIdle == entries = <<>> /\ m_pc = "idle"

NoFile == [lstat_ok |-> FALSE, type |-> "none", xusr |-> FALSE, can_open |-> FALSE,
           content |-> <<>>]

NoCall == [value |-> "none", overrun |-> 0]

EmojiIdle ==
    /\ e_path = "" /\ e_st = NoFile /\ e_other = <<>>
    /\ e_ret = NoCall /\ e_ret2 = NoCall /\ e_pc = "idle"

DisplayLocalsIdle ==
    /\ d_entry_widths = <<>> /\ d_num_columns = 0 /\ d_rows = 0
    /\ d_column_widths = <<>> /\ d_row = 0 /\ d_col = 0
    /\ d_out = <<>> /\ d_err = <<>>

DisplayIdle ==
    /\ d_entries = <<>> /\ d_term_width = 0 /\ d_dir = "" /\ d_show_path = 0
    /\ DisplayLocalsIdle
    /\ d_pc = "idle"

RunIdle ==
    /\ r_argv = <<>> /\ r_args = <<>> /\ r_fs = <<>> /\ r_next = 0 /\ r_entries = <<>>
    /\ r_log = <<>> /\ r_exit = "none" /\ r_pc = "idle"

CompareIdle ==
    /\ c_kind = "idle" /\ c_a = NoEntry /\ c_b = NoEntry
    /\ c_res = <<>> /\ c_old = <<>>

AllocIdle ==
    /\ a_fn = "none" /\ a_entries = "NULL" /\ a_num_entries = 0 /\ a_current_size = 0
    /\ a_sizes = <<>> /\ a_calls = 0 /\ a_pc = "idle"

-----------------------------------------------------------------------------
(* C strings: bytes, tolower, strrchr *)

\* The ASCII characters 45..90 and 97..122 in code order, and '_' (95).
AsciiFrom45 == "-./0123456789:;<=>?@ABCDEFGHIJKLMNOPQRSTUVWXYZ"
AsciiFrom97 == "abcdefghijklmnopqrstuvwxyz"

CharAt(s, i) == SubSeq(s, i, i)

CharCode ==
    [c \in {CharAt(AsciiFrom45, i) : i \in 1..Len(AsciiFrom45)}
           \cup {CharAt(AsciiFrom97, i) : i \in 1..Len(AsciiFrom97)} \cup {"_"} |->
        IF c = "_" THEN 95
        ELSE IF \E i \in 1..Len(AsciiFrom45) : CharAt(AsciiFrom45, i) = c
        THEN 44 + (CHOOSE i \in 1..Len(AsciiFrom45) : CharAt(AsciiFrom45, i) = c)
        ELSE 96 + (CHOOSE i \in 1..Len(AsciiFrom97) : CharAt(AsciiFrom97, i) = c)]

\* (unsigned char)s[i-1] of the NUL-terminated string s: 0 at the terminator.
CByte(s, i) == IF i <= Len(s) THEN CharCode[CharAt(s, i)] ELSE 0

tolower(c) == IF c >= 65 /\ c <= 90 THEN c + 32 ELSE c

\* strrchr(s, '.') as a 1-based index, 0 for NULL.
LastDot(s) ==
    IF \E i \in 1..Len(s) : CharAt(s, i) = "."
    THEN CHOOSE i \in 1..Len(s) :
            /\ CharAt(s, i) = "."
            /\ \A j \in (i + 1)..Len(s) : CharAt(s, j) # "."
    ELSE 0

\* name[0] == '.'
StartsWithDot(s) == Len(s) > 0 /\ CharAt(s, 1) = "."

BoolInt(b) == IF b THEN 1 ELSE 0

-----------------------------------------------------------------------------
(* file_card.c: get_extension, strcasecmp_wrapper, compare_file_entries *)

get_extension(name) ==
    LET dot == LastDot(name)
    IN  IF dot = 0 \/ dot = 1 THEN "" ELSE SubSeq(name, dot + 1, Len(name))

RECURSIVE strcasecmp_loop(_, _, _)
strcasecmp_loop(a, b, i) ==
    LET ca == tolower(CByte(a, i))
        cb == tolower(CByte(b, i))
    IN  IF CByte(a, i) # 0 /\ CByte(b, i) # 0
        THEN IF ca # cb THEN ca - cb ELSE strcasecmp_loop(a, b, i + 1)
        ELSE ca - cb

\* Mutant: a byte comparison that forgets tolower (strcmp for strcasecmp).
RECURSIVE strcmp_loop(_, _, _)
strcmp_loop(a, b, i) ==
    IF CByte(a, i) # 0 /\ CByte(b, i) # 0 /\ CByte(a, i) = CByte(b, i)
    THEN strcmp_loop(a, b, i + 1)
    ELSE CByte(a, i) - CByte(b, i)

strcasecmp_wrapper_case_sensitive(a, b) == strcmp_loop(a, b, 1)

strcasecmp_wrapper(a, b) == strcasecmp_loop(a, b, 1)

\* Mutant: extensions are compared only when both names have one.
compare_file_entries_ext_if_both(entry_a, entry_b) ==
    IF entry_a.is_directory # entry_b.is_directory
    THEN entry_b.is_directory - entry_a.is_directory
    ELSE IF StartsWithDot(entry_a.name) # StartsWithDot(entry_b.name)
    THEN BoolInt(StartsWithDot(entry_b.name)) - BoolInt(StartsWithDot(entry_a.name))
    ELSE LET ext_a == get_extension(entry_a.name)
             ext_b == get_extension(entry_b.name)
             ext_cmp == strcasecmp_wrapper(ext_a, ext_b)
         IN  IF entry_a.is_directory = 0 /\ ext_a # "" /\ ext_b # "" /\ ext_cmp # 0
             THEN ext_cmp
             ELSE strcasecmp_wrapper(entry_a.name, entry_b.name)

\* Mutant: the operands of the directory test are swapped (files first).
compare_file_entries_dirs_last(entry_a, entry_b) ==
    IF entry_a.is_directory # entry_b.is_directory
    THEN entry_a.is_directory - entry_b.is_directory
    ELSE IF StartsWithDot(entry_a.name) # StartsWithDot(entry_b.name)
    THEN BoolInt(StartsWithDot(entry_b.name)) - BoolInt(StartsWithDot(entry_a.name))
    ELSE LET ext_cmp == strcasecmp_wrapper(get_extension(entry_a.name),
                                           get_extension(entry_b.name))
         IN  IF entry_a.is_directory = 0 /\ ext_cmp # 0 THEN ext_cmp
             ELSE strcasecmp_wrapper(entry_a.name, entry_b.name)

\* Mutant: the operands of the dotfile test are swapped (dotfiles last).
compare_file_entries_hidden_last(entry_a, entry_b) ==
    IF entry_a.is_directory # entry_b.is_directory
    THEN entry_b.is_directory - entry_a.is_directory
    ELSE IF StartsWithDot(entry_a.name) # StartsWithDot(entry_b.name)
    THEN BoolInt(StartsWithDot(entry_a.name)) - BoolInt(StartsWithDot(entry_b.name))
    ELSE LET ext_cmp == strcasecmp_wrapper(get_extension(entry_a.name),
                                           get_extension(entry_b.name))
         IN  IF entry_a.is_directory = 0 /\ ext_cmp # 0 THEN ext_cmp
             ELSE strcasecmp_wrapper(entry_a.name, entry_b.name)

\* An entry is [name, is_directory (0 or 1), is_hidden (0 or 1)].
compare_file_entries(entry_a, entry_b) ==
    IF entry_a.is_directory # entry_b.is_directory
    THEN entry_b.is_directory - entry_a.is_directory
    ELSE IF entry_a.is_directory # 0 /\ entry_b.is_directory # 0
    THEN IF StartsWithDot(entry_a.name) # StartsWithDot(entry_b.name)
         THEN BoolInt(StartsWithDot(entry_b.name)) - BoolInt(StartsWithDot(entry_a.name))
         ELSE strcasecmp_wrapper(entry_a.name, entry_b.name)
    ELSE IF StartsWithDot(entry_a.name) # StartsWithDot(entry_b.name)
    THEN BoolInt(StartsWithDot(entry_b.name)) - BoolInt(StartsWithDot(entry_a.name))
    ELSE LET ext_a == get_extension(entry_a.name)
             ext_b == get_extension(entry_b.name)
             ext_cmp == strcasecmp_wrapper(ext_a, ext_b)
         IN  IF ext_cmp # 0 THEN ext_cmp
             ELSE strcasecmp_wrapper(entry_a.name, entry_b.name)


-----------------------------------------------------------------------------
(* display_utils.c: get_utf8_char_width, get_display_width *)

\* Lead bytes on both sides of every threshold of get_utf8_char_width.
WidthBytes == {65, 127, 128, 223, 224, 239, 240}

RECURSIVE SeqsUpTo(_, _)
SeqsUpTo(S, n) ==
    IF n = 0 THEN {<<>>}
    ELSE LET shorter == SeqsUpTo(S, n - 1)
         IN  shorter \cup {Append(s, x) : s \in shorter, x \in S}

WidthStrings == SeqsUpTo(WidthBytes, MaxStrLen)

\* get_utf8_char_width with its first threshold off by one (c <= 0x80).
get_utf8_char_width_ascii_through_0x80(c) ==
    IF c <= 128 THEN 1
    ELSE IF c < 224 THEN 2
    ELSE IF c < 240 THEN 3
    ELSE 4

get_utf8_char_width(c) ==
    IF c < 128 THEN 1
    ELSE IF c < 224 THEN 2
    ELSE IF c < 240 THEN 3
    ELSE 4

\* The byte at index i of the NUL-terminated string s; index Len(s)+1 is the
\* terminator.  Indices beyond it are outside the object.
ByteAt(s, i) == IF i <= Len(s) THEN s[i] ELSE 0

\* size_t width = 0;
WidthCall ==
    /\ w_pc = "idle"
    /\ w_pc' = "loop"
    /\ w_pos' = 1
    /\ w_width' = 0
    /\ UNCHANGED <<w_str, c_vars, m_vars, e_vars, d_vars, r_vars, a_vars>>

\* One iteration of while (*str), str inside the string or at its terminator.
WidthStep ==
    /\ w_pc = "loop"
    /\ w_pos <= Len(w_str) + 1
    /\ LET c == ByteAt(w_str, w_pos)
           char_width == get_utf8_char_width(c)
       IN  IF c = 0
           THEN /\ w_pc' = "done"
                /\ UNCHANGED <<w_pos, w_width>>
           ELSE /\ w_width' = IF char_width = 4 THEN w_width + 2
                              ELSE IF char_width > 1 THEN w_width + 1
                              ELSE w_width + 1
                /\ w_pos' = w_pos + char_width
                /\ w_pc' = "loop"
    /\ UNCHANGED <<w_str, c_vars, m_vars, e_vars, d_vars, r_vars, a_vars>>

\* while (*str) with str beyond the terminator: the read is outside the
\* string.  The scan goes on over whatever bytes follow and returns some
\* larger width, or the process faults.
WidthOobRead ==
    /\ w_pc = "loop"
    /\ w_pos > Len(w_str) + 1
    /\ \E extra \in 0..MaxOobWidth, outcome \in {"done", "crashed"} :
          /\ w_width' = w_width + extra
          /\ w_pc' = outcome
    /\ UNCHANGED <<w_str, w_pos, c_vars, m_vars, e_vars, d_vars, r_vars, a_vars>>

WidthInit ==
    /\ w_str \in WidthStrings
    /\ w_pos = 1 /\ w_width = 0 /\ w_pc = "idle"
    /\ CompareIdle
    /\ MainIdle
    /\ EmojiIdle
    /\ DisplayIdle
    /\ RunIdle
    /\ AllocIdle

WidthNext == WidthCall \/ WidthStep \/ WidthOobRead

SpecWidth == WidthInit /\ [][WidthNext]_vars

-----------------------------------------------------------------------------
(* file_entry.c: the older compare_file_entries, and libc's strcasecmp *)

strcasecmp(a, b) == strcasecmp_loop(a, b, 1)

file_entry_compare_file_entries(entry_a, entry_b) ==
    IF entry_a.is_directory # 0 /\ entry_b.is_directory = 0 THEN -1
    ELSE IF entry_a.is_directory = 0 /\ entry_b.is_directory # 0 THEN 1
    ELSE IF entry_a.is_hidden # 0 /\ entry_b.is_hidden = 0 THEN -1
    ELSE IF entry_a.is_hidden = 0 /\ entry_b.is_hidden # 0 THEN 1
    ELSE strcasecmp(entry_a.name, entry_b.name)

-----------------------------------------------------------------------------
(* longlisting.c: compare_entries *)

\* Mutant: two directories with equal subdir_count go straight to the names.
compare_entries_no_dir_size(fa, fb) ==
    IF fa.is_dir # 0 /\ fb.is_dir = 0 THEN -1
    ELSE IF fa.is_dir = 0 /\ fb.is_dir # 0 THEN 1
    ELSE IF fa.is_dir # 0 /\ fb.is_dir # 0 /\ fa.subdir_count # fb.subdir_count
    THEN fb.subdir_count - fa.subdir_count
    ELSE IF fa.is_dir = 0 /\ fb.is_dir = 0 /\ fa.size # fb.size
    THEN (IF fa.size < fb.size THEN 1 ELSE -1)
    ELSE strcasecmp(fa.name, fb.name)

\* A struct file_info is [name, is_dir (0 or 1), subdir_count, size].
compare_entries(fa, fb) ==
    IF fa.is_dir # 0 /\ fb.is_dir = 0 THEN -1
    ELSE IF fa.is_dir = 0 /\ fb.is_dir # 0 THEN 1
    ELSE IF fa.is_dir # 0 /\ fb.is_dir # 0 /\ fa.subdir_count # fb.subdir_count
    THEN fb.subdir_count - fa.subdir_count
    ELSE IF fa.is_dir # 0 /\ fb.is_dir # 0 /\ fa.size # fb.size
    THEN (IF fa.size < fb.size THEN 1 ELSE -1)
    ELSE IF fa.is_dir = 0 /\ fb.is_dir = 0 /\ fa.size # fb.size
    THEN (IF fa.size < fb.size THEN 1 ELSE -1)
    ELSE strcasecmp(fa.name, fb.name)

-----------------------------------------------------------------------------
(* The comparators applied to entries drawn from bounded sets *)

RECURSIVE StringsUpTo(_, _)
StringsUpTo(A, n) ==
    IF n = 0 THEN {""}
    ELSE LET shorter == StringsUpTo(A, n - 1)
         IN  shorter \cup {s \o x : s \in shorter, x \in A}

\* '.' makes hidden names and extensions, 'a' and 'A' differ in case only,
\* 'B' sorts before 'a' as a byte and after it without case.
CmpAlphabet == {".", "a", "A", "B"}
CmpNames == StringsUpTo(CmpAlphabet, MaxNameLen) \ {""}

\* create_file_entry: is_directory is S_ISDIR (0 or 1), is_hidden is path[0] == '.'.
FileCard(n, d) == [name |-> n, is_directory |-> d, is_hidden |-> BoolInt(StartsWithDot(n))]
CardEntries == {FileCard(n, d) : n \in CmpNames, d \in {0, 1}}

\* A smaller alphabet for the triples of the transitivity check.
TripleAlphabet == {".", "a", "B"}
TripleEntries ==
    {FileCard(n, d) : n \in StringsUpTo(TripleAlphabet, MaxNameLen) \ {""}, d \in {0, 1}}

LongAlphabet == {"a", "A", "B"}
LongNames == StringsUpTo(LongAlphabet, MaxLongNameLen) \ {""}

\* get_file_info: size is st_size or get_dir_size, subdir_count is 0 for a file.
FileInfos ==
    {[name |-> n, is_dir |-> 0, subdir_count |-> 0, size |-> z] :
        n \in LongNames, z \in 0..MaxSize}
    \cup {[name |-> n, is_dir |-> 1, subdir_count |-> k, size |-> z] :
        n \in LongNames, k \in 0..MaxSubdirs, z \in 0..MaxSize}

\* qsort calling compare_file_entries (file_card.c) on two elements, both ways.
CallCompareFileEntries ==
    /\ c_kind = "card"
    /\ c_res = <<>>
    /\ c_res' = [ab |-> compare_file_entries(c_a, c_b),
                 ba |-> compare_file_entries(c_b, c_a),
                 aa |-> compare_file_entries(c_a, c_a)]
    /\ UNCHANGED <<c_kind, c_a, c_b, c_old, w_vars, m_vars, e_vars, d_vars, r_vars, a_vars>>

\* The same with file_entry.c's comparator.
CallFileEntryCompare ==
    /\ c_kind = "card"
    /\ c_old = <<>>
    /\ c_old' = [ab |-> file_entry_compare_file_entries(c_a, c_b),
                 ba |-> file_entry_compare_file_entries(c_b, c_a),
                 aa |-> file_entry_compare_file_entries(c_a, c_a)]
    /\ UNCHANGED <<c_kind, c_a, c_b, c_res, w_vars, m_vars, e_vars, d_vars, r_vars, a_vars>>

\* qsort comparing two elements with each other and with every other element
\* c the array can hold: a_cmp[c] is compare(a, c), b_cmp[c] is compare(b, c).
CallCompareTriple ==
    /\ c_kind = "card3"
    /\ c_res = <<>>
    /\ c_res' = [ab |-> compare_file_entries(c_a, c_b),
                 ba |-> compare_file_entries(c_b, c_a),
                 aa |-> compare_file_entries(c_a, c_a),
                 a_cmp |-> [c \in TripleEntries |-> compare_file_entries(c_a, c)],
                 b_cmp |-> [c \in TripleEntries |-> compare_file_entries(c_b, c)]]
    /\ UNCHANGED <<c_kind, c_a, c_b, c_old, w_vars, m_vars, e_vars, d_vars, r_vars, a_vars>>

\* qsort calling compare_entries (longlisting.c) on two elements, both ways.
CallCompareEntries ==
    /\ c_kind = "long"
    /\ c_res = <<>>
    /\ c_res' = [ab |-> compare_entries(c_a, c_b),
                 ba |-> compare_entries(c_b, c_a),
                 aa |-> compare_entries(c_a, c_a)]
    /\ UNCHANGED <<c_kind, c_a, c_b, c_old, w_vars, m_vars, e_vars, d_vars, r_vars, a_vars>>

CompareInit ==
    /\ \/ /\ c_kind = "card"
          /\ c_a \in CardEntries /\ c_b \in CardEntries
       \/ /\ c_kind = "long"
          /\ c_a \in FileInfos /\ c_b \in FileInfos
   
    /\ c_res = <<>> /\ c_old = <<>>
    /\ WidthIdle
    /\ MainIdle
    /\ EmojiIdle
    /\ DisplayIdle
    /\ RunIdle
    /\ AllocIdle

CompareNext == CallCompareFileEntries \/ CallFileEntryCompare \/ CallCompareEntries

SpecCompare == CompareInit /\ [][CompareNext]_vars

TripleInit ==
    /\ c_kind = "card3"
    /\ c_a \in TripleEntries /\ c_b \in TripleEntries
    /\ c_res = <<>> /\ c_old = <<>>
    /\ WidthIdle
    /\ MainIdle
    /\ EmojiIdle
    /\ DisplayIdle
    /\ RunIdle
    /\ AllocIdle

SpecCompare3 == TripleInit /\ [][CallCompareTriple]_vars

-----------------------------------------------------------------------------
(* main.c: the sort of the gathered entries *)

RECURSIVE PermSeqs(_)
PermSeqs(S) ==
    IF S = {} THEN {<<>>}
    ELSE UNION {{<<x>> \o q : q \in PermSeqs(S \ {x})} : x \in S}

\* qsort's contract: a rearrangement of the array in which no element is
\* followed by one the comparator puts before it.  The order of elements
\* that compare equal is unspecified.
\* The rearrangements of arr[1..n] are built by putting arr[n] into a
\* rearrangement of arr[1..n-1] at every place that keeps this.
InsertAt(s, p, x) == SubSeq(s, 1, p) \o <<x>> \o SubSeq(s, p + 1, Len(s))

RECURSIVE QsortPrefix(_, _)
QsortPrefix(arr, n) ==
    IF n = 0 THEN {<<>>}
    ELSE UNION {{InsertAt(s, p, arr[n]) : p \in
                    {q \in 0..Len(s) :
                        /\ \A i \in 1..q : compare_file_entries(s[i], arr[n]) <= 0
                        /\ \A i \in (q + 1)..Len(s) :
                              compare_file_entries(arr[n], s[i]) <= 0}} :
                s \in QsortPrefix(arr, n - 1)}

QsortResults(arr) == QsortPrefix(arr, Len(arr))

\* The directory of the scenario and one file without an extension.
SortPool ==
    {FileCard("src", 1), FileCard(".git", 1), FileCard("main.c", 0),
     FileCard("README.md", 0), FileCard(".gitignore", 0), FileCard("Makefile", 0)}

\* readdir returns the entries of a directory once each, in no particular order.
GatheredArrays ==
    UNION {PermSeqs(S) : S \in {T \in SUBSET SortPool : Cardinality(T) <= MaxEntries}}

\* main.c:392  qsort(entries, num_entries, sizeof(FileCardInfo), compare_file_entries)
QsortEntries ==
    /\ m_pc = "gathered"
    /\ Len(entries) # 0
    /\ entries' \in QsortResults(entries)
    /\ m_pc' = "sorted"
    /\ UNCHANGED <<w_vars, c_vars, e_vars, d_vars, r_vars, a_vars>>

\* main.c:379  num_entries == 0: nothing is sorted or displayed.
NoFilesFound ==
    /\ m_pc = "gathered"
    /\ Len(entries) = 0
    /\ m_pc' = "empty"
    /\ UNCHANGED <<entries, w_vars, c_vars, e_vars, d_vars, r_vars, a_vars>>

SortInit ==
    /\ entries \in GatheredArrays
    /\ m_pc = "gathered"
    /\ WidthIdle
    /\ CompareIdle
    /\ EmojiIdle
    /\ DisplayIdle
    /\ RunIdle
    /\ AllocIdle

SortNext == QsortEntries \/ NoFilesFound

SpecSort == SortInit /\ [][SortNext]_vars

-----------------------------------------------------------------------------
(* emoji_utils.c: the glyph literals.  A glyph is written as the hexadecimal *)
(* digits of the bytes of its string literal in the source file, two digits *)
(* per byte.                                                                 *)
EmojiUnknown == "e2809ac3b9c3ac"  \* lstat failed, or no rule matched
EmojiLinkToDir == "efa3bfc3bcc3aec3b3efa3bfc3bcc3acc385"  \* symbolic link to a directory
EmojiLink == "efa3bfc3bcc3aec3b3"  \* symbolic link
EmojiDir == "efa3bfc3bcc3acc385"  \* directory
EmojiHidden == "e2809ac3b6c3b4c394e2888fc3a8"  \* hidden file
EmojiExecutable == "efa3bfc3bcc3adc3a6"  \* executable file
EmojiText == "efa3bfc3bcc3acc3b9"  \* text file
DevEmojiNullZero == "e2809ac3acc3b8"  \* null, zero
DevEmojiRandom == "efa3bfc3bcc3a9e289a4"  \* random, urandom
DevEmojiTty == "efa3bfc3bcc3b1e280a2c394e2888fc3a8"  \* tty*
DevEmojiSd == "efa3bfc3bcc3adcea9"  \* sd*
DevEmojiLoop == "efa3bfc3bcc3aec385"  \* loop*
DevEmojiUsb == "efa3bfc3bcc3aec3a5"  \* usb*
DevEmojiOther == "efa3bfc3bcc3aec39f"  \* any other device

\* The if-else chain over the extension, in source order: the extensions one
\* branch compares with and the glyph it copies.
ExtensionChain == <<
    [exts |-> {"md"},
     emoji |-> "efa3bfc3bcc3acc3ab"],
    [exts |-> {"jpg", "jpeg", "png", "gif", "bmp", "svg", "webp"},
     emoji |-> "efa3bfc3bcc3ace2888f"],
    [exts |-> {"mp4", "avi", "mkv", "mov", "flv", "wmv", "webm"},
     emoji |-> "efa3bfc3bcc3a9c2a8"],
    [exts |-> {"mp3", "wav", "ogg", "flac", "m4a", "aac"},
     emoji |-> "efa3bfc3bcc3a9c39f"],
    [exts |-> {"zip", "tar", "gz", "bz2", "xz", "7z", "rar"},
     emoji |-> "efa3bfc3bcc3acc2b6"],
    [exts |-> {"deb", "rpm"},
     emoji |-> "efa3bfc3bcc3ace280a2"],
    [exts |-> {"py", "sh", "js", "html", "css", "cpp", "c", "java", "go",
              "rb", "rs", "php", "h", "hpp"},
     emoji |-> "efa3bfc3bcc3adc2aa"],
    [exts |-> {"o"},
     emoji |-> "efa3bfc3bcc39fc2a9"],
    [exts |-> {"txt", "rst", "log"},
     emoji |-> "efa3bfc3bcc3acc3b9"],
    [exts |-> {"ttf", "otf", "woff", "woff2"},
     emoji |-> "efa3bfc3bcc3aec2a7"],
    [exts |-> {"pdf", "djvu", "epub"},
     emoji |-> "efa3bfc3bcc3acc3b6"],
    [exts |-> {"pem", "crt", "key", "pub", "p12"},
     emoji |-> "efa3bfc3bcc3aec3ab"],
    [exts |-> {"csv"},
     emoji |-> "efa3bfc3bcc3acc3a4"],
    [exts |-> {"torrent"},
     emoji |-> "efa3bfc3bcc3a5c3a4"],
    [exts |-> {"iso", "img"},
     emoji |-> "efa3bfc3bcc3adcea9"],
    [exts |-> {"qcow", "qcow2"},
     emoji |-> "efa3bfc3bcc3aac386"],
    [exts |-> {"vv"},
     emoji |-> "efa3bfc3bcc3afcf80c394e2888fc3a8"],
    [exts |-> {"doc", "docx", "odt", "rtf", "xls", "xlsx", "ods", "ppt",
              "pptx", "odp"},
     emoji |-> "efa3bfc3bcc3acc391"],
    [exts |-> {"conf", "config", "toml", "cfg", "yaml", "yml", "json", "ini"},
     emoji |-> "e2809ac3b6c3b4c394e2888fc3a8"] >>

-----------------------------------------------------------------------------
(* emoji_mappings.c: the table of exact file names, in table order *)

emoji_exact_file_map == <<
    <<"shadow", "f09f95b6efb88f">>, <<"shadow-", "f09f9499">>,
    <<"fstab", "e2ac9c">>, <<"Makefile.am", "f09f8f97efb88f20">>,
    <<"configure.ac", "f09f8f97efb88f20">>,
    <<"CmakeLists.txt", "f09f8f97efb88f20">>,
    <<"meson.build", "f09f8f97efb88f20">>,
    <<"meson_options.txt", "f09f8f97efb88f20">>,
    <<"WORKSPACE", "f09f8f97efb88f20">>, <<".bazelrc", "f09f8f97efb88f20">>,
    <<"Makefile.in", "f09f8f97efb88f20">>,
    <<"configure.ac", "f09f8f97efb88f20">>, <<"Dockerfile", "f09f90b3">>,
    <<"Dockerfile.txt", "f09f90b3">>, <<".gitlab-ci.yml", "f09fa68a">>,
    <<".travis.yml", "e29b91efb88f">>, <<"swagger.yaml", "f09fa7a3">>,
    <<"Jenkinsfile", "f09f94b4">>, <<"tags", "f09f8fb7efb88f20">>,
    <<".hgtags", "f09f8fb7efb88f20">>, <<"COPYING", "e29a96efb88f20">>,
    <<"COPYING.LIB", "e29a96efb88f20">>, <<"APACHE2", "e29a96efb88f20">>,
    <<".ninja_deps", "f09fa5b7">>, <<".ninja_log", "f09fa5b7">>,
    <<".gitattributes", "f09f9099">>, <<".gitconfig", "f09f9099">>,
    <<".gitmodules", "f09f9099">>, <<".git-blame-ignore-revs", "f09f9099">>,
    <<".gitkeep", "f09f9099">>, <<".gitallowed", "f09f9099">>,
    <<".zcompdump", "f09f868920">>, <<".zprofile", "f09f868920">>,
    <<".zshrc", "f09f868920">>, <<".histfile", "f09f868920">>,
    <<".bashrc", "f09f92b0">>, <<".bash_history", "f09f92b0">>,
    <<".bash_logout", "f09f92b0">>, <<".bash_profile", "f09f92b0">>,
    <<".prettierrc", "f09f968cefb88f20">>, <<".inputrc", "f09f96ae20">>,
    <<".vimrc", "f09f9696">>, <<".viminfo", "f09f9696">>,
    <<".clang-tidy", "f09fa7b9">>, <<".clang-format", "f09fa7b9">>,
    <<".clangd", "f09fa7b9">>, <<".babelrc", "f09f97bc">>,
    <<"manifest.txt", "f09f939c">>, <<"robots.txt", "f09f95b7efb88f">>,
    <<"sitemap.txt", "f09f97baefb88f">>, <<"Pipfile.txt", "f09f908d">>,
    <<"requirements.txt", "f09fa7be">>, <<".editorconfig", "f09f9390">>,
    <<"tsconfig.json", "f09f94b7">>, <<"tsconfig.test.json", "f09fa7aa">>,
    <<"jest.config.js", "f09fa7aa">>, <<"php.ini", "f09f9098">>,
    <<"dnsmasq.conf", "f09f8c90">>, <<"vimrc", "f09f9696">>,
    <<"virc", "f09f9696">>, <<"profile", "f09f9aaa">>,
    <<"libuser.conf", "f09f91a4">>, <<"subuid", "f09f91a4">>,
    <<"subuid-", "f09f9499">>, <<"pinforc", "f09f938c">>,
    <<"sudoers", "f09f9191">>, <<"sudo.conf", "f09f9191">>,
    <<"man_db.conf", "f09f9396">>, <<"chrony.conf", "e28fb0">>,
    <<"group", "f09f91a5">>, <<"group-", "f09f9499">>,
    <<"zshenv", "f09f868920">>, <<"zlogin", "f09f868920">>,
    <<"zlogout", "f09f868920">>, <<"zshrc", "f09f868920">>,
    <<"zprofile", "f09f868920">>, <<"inittab", "f09f9a80">>,
    <<"netconfig", "f09f8c90">>, <<"hosts", "f09f8fa0">>,
    <<"login.defs", "f09faab5">>, <<"logrotate.conf", "f09faab5">>,
    <<"rsyslog.conf", "f09faab5">>, <<"aliases", "f09f9480">>,
    <<"dnsmasq.conf", "f09f8ead">>, <<"kdump.conf", "f09f9a9b">>,
    <<"makedumpfile.conf.sample", "f09f9a9b">>, <<"subgid", "f09f91a5">>,
    <<"subgid-", "f09f9499">>, <<"ts.conf", "f09f9186">>,
    <<"krb5.conf", "f09f8e9fefb88f">>, <<"xattr.conf", "f09f8fb7efb88f">>,
    <<"mke2fs.conf", "f09f8cb1">>, <<"sysctl.conf", "f09f8e9befb88f20">>,
    <<"opensc.conf", "f09f92b3">>, <<"whois.conf", "f09f95b5efb88f">>,
    <<"sddm.conf", "f09f96a5efb88f20">>, <<"asound.conf", "f09f948a">>,
    <<"passim.conf", "f09f93a1">>, <<"vdpau_wrapper.cfg", "f09f8e9eefb88f">>,
    <<"Trolltech.conf", "f09f94a8">>, <<"npmrc", "f09f93a6">>,
    <<"nilfs_cleanerd.conf", "f09fa7b9">>,
    <<"sensors3.conf", "f09f8ca1efb88f">>, <<"brltty.conf", "f09f9193">>,
    <<"magic", "f09f8ea9">>, <<"swtpm-localca.options", "f09f9490">>,
    <<"filesystems", "f09f8cb3">>, <<"passwd", "f09f9ba1efb88f">>,
    <<"passwd-", "f09f9499">>, <<"bashrc", "f09f92b0">>,
    <<"crontab", "f09f9385">>, <<"Gemfile", "f09f928e">>,
    <<"Cargo.toml", "f09f9bbb">>, <<".eslintrc", "f09fa7b9">>,
    <<"tox.ini", "f09fa7aa">>, <<"rsyncd.conf", "f09f9481">>,
    <<".cocciconfig", "f09f909e">>, <<".gdbinit", "f09f90a0">>,
    <<".flake8", "f09fa5a3">>, <<".mailmap", "f09f93a7">>,
    <<"gradle.properties", "f09f9098">>, <<"build.gradle.kts", "f09f9098">>,
    <<".flowconfig", "f09fa7b9">>, <<"Doxyfile", "f09f95ae20">>,
    <<"AUTHORS", "f09f939d">>, <<"index", "f09f938c">>,
    <<"perf.data", "e28fb1efb88f">>, <<"perf.data.old", "e28fb1efb88f">> >>

-----------------------------------------------------------------------------
(* emoji_utils.c: is_executable, is_text_file, get_emoji, get_dev_emoji *)

TextBufferSize == 1024  \* unsigned char buffer[1024] of is_text_file
EmojiBufferSize == 5    \* malloc(5 * sizeof(char))

NullPtr == "NULL"

\* A file's content is a sequence of runs <<class, count>>: count bytes that
\* are all printable (isprint), all newlines (isspace) or all neither.
ByteClasses == {"print", "newline", "binary"}
RunCounts == {1, TextBufferSize}
Contents == SeqsUpTo(ByteClasses \X RunCounts, MaxRuns)

RECURSIVE ByteCount(_)
ByteCount(c) == IF c = <<>> THEN 0 ELSE Head(c)[2] + ByteCount(Tail(c))

\* The class of the i-th byte of content c, "eof" beyond its end.
RECURSIVE ClassAt(_, _)
ClassAt(c, i) ==
    IF c = <<>> THEN "eof"
    ELSE IF i <= Head(c)[2] THEN Head(c)[1]
    ELSE ClassAt(Tail(c), i - Head(c)[2])

\* The indices at which a run of c starts or ends.
RunEdges(c) ==
    UNION {{ByteCount(SubSeq(c, 1, k)), ByteCount(SubSeq(c, 1, k)) + 1} : k \in 0..Len(c)}

\* c and d have the same first n bytes (and both end where one ends earlier).
SameBytes(c, d, n) ==
    \A i \in (RunEdges(c) \cup RunEdges(d) \cup {n}) \cap 1..n : ClassAt(c, i) = ClassAt(d, i)

\* The length of the first line of c, its newline included; the whole content
\* when it has no newline.
RECURSIVE FirstLineLength(_)
FirstLineLength(c) ==
    IF c = <<>> THEN 0
    ELSE IF Head(c)[1] = "newline" THEN 1
    ELSE Head(c)[2] + FirstLineLength(Tail(c))

SameFirstLine(c, d) ==
    /\ FirstLineLength(c) = FirstLineLength(d)
    /\ SameBytes(c, d, FirstLineLength(c))

\* The glyph literals of handle_dev_directory, as the hexadecimal digits of
\* their bytes.
DevDirEmojiLinkToDir == "f09f9497f09f9381"
DevDirEmojiLink == "f09f9497"
DevDirEmojiDir == "f09f9381"

\* Names of entries of an ordinary directory, and paths of device files.
EmojiPaths ==
    {"Dockerfile.txt", "tsconfig.json", ".bashrc", "notes", "a.PNG"}

DevPaths == {"null", "urandom", "tty1", "sda", "loop0", "usb1", "mem", "/dev/zero"}

DevFile ==
    [lstat_ok |-> TRUE, type |-> "chr", xusr |-> FALSE, can_open |-> FALSE, content |-> <<>>]

RegularFiles ==
    {[lstat_ok |-> TRUE, type |-> "reg", xusr |-> x, can_open |-> o, content |-> c] :
        x \in BOOLEAN, o \in BOOLEAN, c \in Contents}

\* What lstat can find at a path: nothing, a directory, a symbolic link, a
\* character device or a regular file.
DirFile ==
    [lstat_ok |-> TRUE, type |-> "dir", xusr |-> FALSE, can_open |-> FALSE, content |-> <<>>]

\* A symbolic link: lstat reports the link itself (type "lnk"); target is
\* the type of what it points to.
LinkFiles ==
    {[lstat_ok |-> TRUE, type |-> "lnk", xusr |-> FALSE, can_open |-> FALSE,
      content |-> <<>>, target |-> t] : t \in {"dir", "reg"}}

EmojiFiles == {NoFile, DevFile, DirFile} \cup RegularFiles \cup LinkFiles

\* (st.st_mode & S_IXUSR) != 0
is_executable(st) == BoolInt(st.xusr)

\* fread(buffer, 1, n, file): the first n bytes of the content, all when fewer.
RECURSIVE fread(_, _)
fread(c, n) ==
    IF n = 0 \/ c = <<>> THEN <<>>
    ELSE LET k == IF Head(c)[2] < n THEN Head(c)[2] ELSE n
         IN  <<<<Head(c)[1], k>>>> \o fread(Tail(c), n - k)

\* is_text_file reading the whole file instead of one buffer.
is_text_file_whole_file(st) ==
    IF ~st.can_open THEN 0
    ELSE LET buffer == fread(st.content, ByteCount(st.content))
         IN  IF ByteCount(buffer) = 0 THEN 1
             ELSE IF \E i \in 1..Len(buffer) : buffer[i][1] = "binary" THEN 0
             ELSE 1

is_text_file(st) ==
    IF ~st.can_open THEN 0
    ELSE LET buffer == fread(st.content, TextBufferSize)
             bytes_read == ByteCount(buffer)
         IN  IF bytes_read = 0 THEN 1
             ELSE IF \E i \in 1..Len(buffer) : buffer[i][1] = "binary" THEN 0
             ELSE 1

\* The last branch of the chain and the branch without extension.
FallbackEmoji(path, st) ==
    IF StartsWithDot(path) THEN EmojiHidden
    ELSE IF is_executable(st) # 0 THEN EmojiExecutable
    ELSE IF is_text_file(st) # 0 THEN EmojiText
    ELSE EmojiUnknown

\* The glyph get_emoji copies into its buffer.
EmojiFor(path, st) ==
    IF ~st.lstat_ok THEN EmojiUnknown
    ELSE IF st.type = "lnk"
    THEN (IF st.type = "dir" THEN EmojiLinkToDir ELSE EmojiLink)
    ELSE IF st.type = "dir" THEN EmojiDir
    ELSE LET dot == LastDot(path)
             extension == SubSeq(path, dot + 1, Len(path))
             hits == {i \in 1..Len(ExtensionChain) : extension \in ExtensionChain[i].exts}
         IN  IF dot # 0 /\ hits # {}
             THEN ExtensionChain[CHOOSE i \in hits : \A j \in hits : i <= j].emoji
             ELSE FallbackEmoji(path, st)

\* strcpy(emoji, glyph) into the EmojiBufferSize bytes allocated: the string
\* and the number of bytes written beyond the buffer.
strcpy_emoji(glyph) ==
    [value |-> glyph,
     overrun |-> IF Len(glyph) \div 2 + 1 > EmojiBufferSize
                 THEN Len(glyph) \div 2 + 1 - EmojiBufferSize ELSE 0]

get_emoji(path, st, alloc_ok) ==
    IF ~alloc_ok THEN [value |-> NullPtr, overrun |-> 0]
    ELSE strcpy_emoji(EmojiFor(path, st))

\* strrchr(s, '/') as a 1-based index, 0 for NULL.
LastSlash(s) ==
    IF \E i \in 1..Len(s) : CharAt(s, i) = "/"
    THEN CHOOSE i \in 1..Len(s) :
            /\ CharAt(s, i) = "/"
            /\ \A j \in (i + 1)..Len(s) : CharAt(s, j) # "/"
    ELSE 0

\* strncmp(s, p, strlen(p)) == 0
HasPrefix(s, p) == Len(s) >= Len(p) /\ SubSeq(s, 1, Len(p)) = p

get_dev_emoji(path, alloc_ok) ==
    LET filename == SubSeq(path, LastSlash(path) + 1, Len(path))
    IN  IF ~alloc_ok THEN [value |-> NullPtr, overrun |-> 0]
        ELSE IF filename = "null" \/ filename = "zero" THEN strcpy_emoji(DevEmojiNullZero)
        ELSE IF filename = "random" \/ filename = "urandom" THEN strcpy_emoji(DevEmojiRandom)
        ELSE IF HasPrefix(filename, "tty") THEN strcpy_emoji(DevEmojiTty)
        ELSE IF HasPrefix(filename, "sd") THEN strcpy_emoji(DevEmojiSd)
        ELSE IF HasPrefix(filename, "loop") THEN strcpy_emoji(DevEmojiLoop)
        ELSE IF HasPrefix(filename, "usb") THEN strcpy_emoji(DevEmojiUsb)
        ELSE strcpy_emoji(DevEmojiOther)

\* dev_dir_utils.c:108-122  the glyph handle_dev_directory gives the entry
\* name of /dev whose lstat result is st: strdup of a literal for a link or
\* a directory, get_dev_emoji for anything else.
handle_dev_emoji(st, name, alloc_ok) ==
    LET is_directory_flag == BoolInt(st.type = "dir")
    IN  IF st.type = "lnk"
        THEN [value |-> IF ~alloc_ok THEN NullPtr
                        ELSE IF is_directory_flag # 0 THEN DevDirEmojiLinkToDir
                        ELSE DevDirEmojiLink,
              overrun |-> 0]
        ELSE IF is_directory_flag # 0
        THEN [value |-> IF ~alloc_ok THEN NullPtr ELSE DevDirEmojiDir, overrun |-> 0]
        ELSE get_dev_emoji(name, alloc_ok)

\* The directories print_longlisting is given.
LongListingDirs == {".", "src"}

\* get_emoji(e_path) for the entry e_st; malloc succeeds or fails.
GetEmoji ==
    /\ e_pc = "start"
    /\ \E alloc_ok \in BOOLEAN : e_ret' = get_emoji(e_path, e_st, alloc_ok)
    /\ e_pc' = "first"
    /\ UNCHANGED <<e_path, e_st, e_other, e_ret2, w_vars, c_vars, m_vars, d_vars, r_vars, a_vars>>

\* get_emoji(e_path) once more, for a regular file of the same name and mode
\* bits whose content has the same first line or the same first
\* TextBufferSize bytes.
GetEmojiOther ==
    /\ e_pc = "first"
    /\ e_st.lstat_ok /\ e_st.type = "reg"
    /\ \E c \in Contents, alloc_ok \in BOOLEAN :
          /\ SameFirstLine(c, e_st.content) \/ SameBytes(c, e_st.content, TextBufferSize)
          /\ e_other' = c
          /\ e_ret2' = get_emoji(e_path, [e_st EXCEPT !.content = c], alloc_ok)
    /\ e_pc' = "second"
    /\ UNCHANGED <<e_path, e_st, e_ret, w_vars, c_vars, m_vars, d_vars, r_vars, a_vars>>

\* get_dev_emoji(e_path); malloc succeeds or fails.
GetDevEmoji ==
    /\ e_pc = "start"
    /\ \E alloc_ok \in BOOLEAN : e_ret' = get_dev_emoji(e_path, alloc_ok)
    /\ e_pc' = "dev"
    /\ UNCHANGED <<e_path, e_st, e_other, e_ret2, w_vars, c_vars, m_vars, d_vars, r_vars, a_vars>>

\* longlisting.c:320-325, 282  get_emoji(full_path) for the same entry,
\* full_path being "%s/%s" of the listed directory and the name.
GetEmojiFullPath ==
    /\ e_pc = "first"
    /\ e_path \in EmojiPaths
    /\ \E path \in LongListingDirs, alloc_ok \in BOOLEAN :
          /\ e_other' = path
          /\ e_ret2' = get_emoji(path \o "/" \o e_path, e_st, alloc_ok)
    /\ e_pc' = "full_path"
    /\ UNCHANGED <<e_path, e_st, e_ret, w_vars, c_vars, m_vars, d_vars, r_vars, a_vars>>

\* dev_dir_utils.c:97-122  the glyph of one entry of /dev.
HandleDevEntry ==
    /\ e_pc = "start"
    /\ e_path \in DevPaths
    /\ LastSlash(e_path) = 0
    /\ e_st.lstat_ok
    /\ \E alloc_ok \in BOOLEAN : e_ret' = handle_dev_emoji(e_st, e_path, alloc_ok)
    /\ e_pc' = "dev_entry"
    /\ UNCHANGED <<e_path, e_st, e_other, e_ret2, w_vars, c_vars, m_vars, d_vars, r_vars, a_vars>>

EmojiInit ==
    /\ \/ e_path \in EmojiPaths /\ e_st \in EmojiFiles
       \/ e_path \in DevPaths /\ e_st \in {DevFile, DirFile} \cup LinkFiles
    /\ e_other = <<>>
    /\ e_ret = NoCall /\ e_ret2 = NoCall
    /\ e_pc = "start"
    /\ WidthIdle
    /\ CompareIdle
    /\ MainIdle
    /\ DisplayIdle
    /\ RunIdle
    /\ AllocIdle

EmojiNext ==
    GetEmoji \/ GetEmojiOther \/ GetEmojiFullPath \/ GetDevEmoji \/ HandleDevEntry

SpecEmoji == EmojiInit /\ [][EmojiNext]_vars

-----------------------------------------------------------------------------
(* dir_config.c: get_max_columns.  display_utils.c: display_entries *)

DEFAULT_MAX_COLUMNS == 4
SPACING == 2
EMOJI_WIDTH == 2
EMOJI_NAME_SPACING == 1

directory_configs == << <<"/dev", 6>>, <<"/proc", 5>> >>

get_max_columns(path) ==
    LET hits == {i \in 1..Len(directory_configs) : directory_configs[i][1] = path}
    IN  IF hits # {}
        THEN directory_configs[CHOOSE i \in hits : \A j \in hits : i <= j][2]
        ELSE DEFAULT_MAX_COLUMNS

\* get_display_width as a function, for a string that ends with a whole run.
RECURSIVE get_display_width_from(_, _)
get_display_width_from(str, pos) ==
    IF ByteAt(str, pos) = 0 THEN 0
    ELSE LET char_width == get_utf8_char_width(ByteAt(str, pos))
         IN  (IF char_width = 4 THEN 2 ELSE 1)
                 + get_display_width_from(str, pos + char_width)

get_display_width(str) == get_display_width_from(str, 1)

\* The entries given to display_entries: the name as bytes, the glyph, and
\* git_status[0] ("" when it is the NUL byte).
DisplayEntryPool ==
    {[name |-> <<240, 159, 146, 190>>, emoji |-> EmojiDir, git_status |-> ""],
     [name |-> <<97, 98, 99, 100, 101, 102, 103>>, emoji |-> DevDirEmojiLink,
      git_status |-> ""],
     [name |-> <<97, 98, 99, 100, 101, 102, 103>>, emoji |-> DevDirEmojiLinkToDir,
      git_status |-> "M"]}

DisplayArrays == SeqsUpTo(DisplayEntryPool, MaxDisplayEntries) \ {<<>>}

TermWidths == {10, 40, 80}

DisplayDirs == {"/home", "/dev", "/proc"}

\* entry_widths[i] of display_utils.c:134-137.
EntryWidth(entry) ==
    EMOJI_WIDTH + EMOJI_NAME_SPACING + get_display_width(entry.name)
        + (IF entry.git_status # "" THEN 3 ELSE 0)

\* SeqMax taking the first element for the largest.
SeqMax_first(s) == IF s = <<>> THEN 0 ELSE s[1]

SeqMax(s) ==
    IF s = <<>> THEN 0 ELSE CHOOSE x \in {s[i] : i \in 1..Len(s)} : \A i \in 1..Len(s) : s[i] <= x

\* NumColumns without the upper limit max_columns.
NumColumns_no_upper_limit(term_width, max_width, max_columns) ==
    LET num_columns == (term_width + SPACING) \div (max_width + SPACING)
    IN  IF num_columns < 1 THEN 1 ELSE num_columns

\* NumColumns dividing by max_width alone.
NumColumns_no_spacing(term_width, max_width, max_columns) ==
    LET num_columns == (term_width + SPACING) \div max_width
        capped == IF num_columns > max_columns THEN max_columns ELSE num_columns
    IN  IF capped < 1 THEN 1 ELSE capped

\* NumColumns rounding the quotient up.
NumColumns_round_up(term_width, max_width, max_columns) ==
    LET num_columns == (term_width + SPACING + max_width + SPACING - 1)
                            \div (max_width + SPACING)
        capped == IF num_columns > max_columns THEN max_columns ELSE num_columns
    IN  IF capped < 1 THEN 1 ELSE capped

\* display_utils.c:143-147
NumColumns(term_width, max_width, max_columns) ==
    LET num_columns == (term_width + SPACING) \div (max_width + SPACING)
        capped == IF num_columns > max_columns THEN max_columns ELSE num_columns
    IN  IF capped < 1 THEN 1 ELSE capped

\* int rows = (num_entries + num_columns - 1) / num_columns;
Rows(num_entries, num_columns) == (num_entries + num_columns - 1) \div num_columns

\* CellIndex filling the rows first.
CellIndex_row_first(row, col, rows) == row * rows + col

\* int index = col * rows + row;
CellIndex(row, col, rows) == col * rows + row

\* The header (show_path) and malloc of entry_widths; on failure the message
\* and return.
DisplayBegin ==
    /\ d_pc = "start"
    /\ d_out' = IF d_show_path # 0 THEN Append(d_out, [kind |-> "header"]) ELSE d_out
    /\ \E alloc_ok \in BOOLEAN :
          IF alloc_ok
          THEN /\ d_entry_widths' = [i \in 1..Len(d_entries) |-> EntryWidth(d_entries[i])]
               /\ d_pc' = "layout"
               /\ UNCHANGED d_err
          ELSE /\ d_err' = Append(d_err, "Memory allocation failed")
               /\ d_pc' = "returned"
               /\ UNCHANGED d_entry_widths
    /\ UNCHANGED <<d_entries, d_term_width, d_dir, d_show_path, d_num_columns, d_rows,
                   d_column_widths, d_row, d_col>>
    /\ UNCHANGED <<w_vars, c_vars, m_vars, e_vars, r_vars, a_vars>>

\* num_columns, calloc of column_widths (on failure the message and return),
\* rows, and the loop that fills column_widths.
DisplayLayout ==
    /\ d_pc = "layout"
    /\ LET num_entries == Len(d_entries)
           num_columns == NumColumns(d_term_width, SeqMax(d_entry_widths),
                                     get_max_columns(d_dir))
           rows == Rows(num_entries, num_columns)
       IN  /\ d_num_columns' = num_columns
           /\ \E alloc_ok \in BOOLEAN :
                 IF alloc_ok
                 THEN /\ d_rows' = rows
                      /\ d_column_widths' =
                            [c \in 1..num_columns |->
                                SeqMax([k \in 1..Cardinality({i \in 0..(num_entries - 1) : i \div rows = c - 1}) |->
                                    d_entry_widths[(c - 1) * rows + k]])]
                      /\ d_pc' = "print"
                      /\ UNCHANGED d_err
                 ELSE /\ d_err' = Append(d_err, "Memory allocation failed")
                      /\ d_pc' = "returned"
                      /\ UNCHANGED <<d_rows, d_column_widths>>
    /\ d_row' = 0 /\ d_col' = 0
    /\ UNCHANGED <<d_entries, d_term_width, d_dir, d_show_path, d_entry_widths, d_out>>
    /\ UNCHANGED <<w_vars, c_vars, m_vars, e_vars, r_vars, a_vars>>

\* One iteration of the inner loop: the cell at (row, col), when it holds an
\* entry, and its padding.
DisplayCell ==
    /\ d_pc = "print"
    /\ d_row < d_rows
    /\ d_col < d_num_columns
    /\ LET index == CellIndex(d_row, d_col, d_rows)
       IN  IF index < Len(d_entries)
           THEN LET printed_width == d_entry_widths[index + 1]
                    padding == IF d_col < d_num_columns - 1
                               THEN d_column_widths[d_col + 1] - printed_width + SPACING
                               ELSE 0
                IN  d_out' = Append(d_out,
                        [kind |-> "entry", index |-> index, row |-> d_row, col |-> d_col,
                         emoji |-> d_entries[index + 1].emoji,
                         marker |-> d_entries[index + 1].git_status,
                         padding |-> padding])
           ELSE UNCHANGED d_out
    /\ d_col' = d_col + 1
    /\ UNCHANGED <<d_entries, d_term_width, d_dir, d_show_path, d_entry_widths,
                   d_num_columns, d_rows, d_column_widths, d_row, d_err, d_pc>>
    /\ UNCHANGED <<w_vars, c_vars, m_vars, e_vars, r_vars, a_vars>>

\* printf("\n") after the inner loop.
DisplayNewline ==
    /\ d_pc = "print"
    /\ d_row < d_rows
    /\ d_col = d_num_columns
    /\ d_out' = Append(d_out, [kind |-> "newline"])
    /\ d_row' = d_row + 1
    /\ d_col' = 0
    /\ UNCHANGED <<d_entries, d_term_width, d_dir, d_show_path, d_entry_widths,
                   d_num_columns, d_rows, d_column_widths, d_err, d_pc>>
    /\ UNCHANGED <<w_vars, c_vars, m_vars, e_vars, r_vars, a_vars>>

\* The outer loop is over: free and return.
DisplayReturn ==
    /\ d_pc = "print"
    /\ d_row = d_rows
    /\ d_pc' = "returned"
    /\ UNCHANGED <<d_entries, d_term_width, d_dir, d_show_path, d_entry_widths,
                   d_num_columns, d_rows, d_column_widths, d_row, d_col, d_out, d_err>>
    /\ UNCHANGED <<w_vars, c_vars, m_vars, e_vars, r_vars, a_vars>>

DisplayInit ==
    /\ d_entries \in DisplayArrays
    /\ d_term_width \in TermWidths
    /\ d_dir \in DisplayDirs
    /\ d_show_path \in {0, 1}
    /\ DisplayLocalsIdle
    /\ d_pc = "start"
    /\ WidthIdle
    /\ CompareIdle
    /\ MainIdle
    /\ EmojiIdle
    /\ RunIdle
    /\ AllocIdle

DisplayNext ==
    DisplayBegin \/ DisplayLayout \/ DisplayCell \/ DisplayNewline \/ DisplayReturn

SpecDisplay == DisplayInit /\ [][DisplayNext]_vars

-----------------------------------------------------------------------------
(* args_parser.c: is_glob_pattern, parse_args *)

\* strchr(str, '*') != NULL || strchr(str, '?') != NULL || strchr(str, '[') != NULL
is_glob_pattern(str) ==
    \E i \in 1..Len(str) : CharAt(str, i) \in {"*", "?", "["}

\* CommandLineArgs args = {0}; invalid_opt is NullPtr until an option is
\* not recognised.
NoArgs ==
    [show_version |-> FALSE, show_help |-> FALSE, show_longlisting |-> FALSE,
     show_dir_analytics |-> FALSE, invalid_opt |-> NullPtr, targets |-> <<>>]

\* The loop of parse_args from argv[i] on: an unrecognised option returns at once.
RECURSIVE parse_args_from(_, _, _)
parse_args_from(argv, i, args) ==
    IF i > Len(argv) THEN args
    ELSE IF argv[i] = "-v" \/ argv[i] = "--version"
    THEN parse_args_from(argv, i + 1, [args EXCEPT !.show_version = TRUE])
    ELSE IF argv[i] = "-h" \/ argv[i] = "--help"
    THEN parse_args_from(argv, i + 1, [args EXCEPT !.show_help = TRUE])
    ELSE IF argv[i] = "-l" \/ argv[i] = "--long"
    THEN parse_args_from(argv, i + 1, [args EXCEPT !.show_longlisting = TRUE])
    ELSE IF argv[i] = "-a" \/ argv[i] = "--analytics"
    THEN parse_args_from(argv, i + 1, [args EXCEPT !.show_dir_analytics = TRUE])
    ELSE IF Len(argv[i]) > 0 /\ CharAt(argv[i], 1) = "-"
    THEN [args EXCEPT !.invalid_opt = argv[i]]
    ELSE parse_args_from(argv, i + 1, [args EXCEPT !.targets = Append(@, argv[i])])

parse_args(argv) == parse_args_from(argv, 1, NoArgs)

-----------------------------------------------------------------------------
(* main.c: the file system of a run, create_file_entry, the scans *)

\* The arguments of the runs: every option, one that is not recognised, a
\* directory, the device directory, a glob pattern and a file.
ArgPool == {"-v", "-h", "-l", "-a", "--bogus", "src", "/dev", "?.c", "a.c"}

RunArgvs == SeqsUpTo(ArgPool, MaxArgs)

\* What readdir returns for a directory, in this order; every directory of a
\* run holds the first listed names of it.
RunDirNames == <<"b.c", "a.c", "d.h", "e.h">>

\* A run's surroundings: the working directory, whether it is inside a git
\* work tree, how many names its directories hold, the names lstat fails
\* for, and whether getcwd works.
RunFileSystems ==
    {[cwd |-> c, git |-> g, listed |-> n, broken |-> b, getcwd_ok |-> k] :
        c \in {"/home", "/dev"}, g \in BOOLEAN, n \in 0..MaxListing,
        b \in {{}, {"a.c"}}, k \in BOOLEAN}

Listing(fs) == SubSeq(RunDirNames, 1, fs.listed)

\* lstat(path): the directories /dev and src always exist; a listed name
\* exists unless lstat fails for it; anything else is missing.
RunLstat(fs, path) ==
    LET name == SubSeq(path, LastSlash(path) + 1, Len(path))
    IN  IF name = "src" \/ path = "/dev"
        THEN [lstat_ok |-> TRUE, type |-> "dir", xusr |-> TRUE, can_open |-> TRUE,
              content |-> <<>>]
        ELSE IF (\E i \in 1..fs.listed : RunDirNames[i] = name) /\ name \notin fs.broken
        THEN [lstat_ok |-> TRUE, type |-> "reg", xusr |-> FALSE, can_open |-> TRUE,
              content |-> <<>>]
        ELSE NoFile

\* main.c:185-190  stat(path) == 0 && S_ISDIR
is_directory(fs, path) ==
    LET st == RunLstat(fs, path) IN BoolInt(st.lstat_ok /\ st.type = "dir")

\* main.c:346-353  display_path for a target: realpath(target) when the
\* target exists (an absolute path as it is, a relative one under the
\* working directory), else the target as it was given.
TargetDisplayPath(fs, target) ==
    IF ~RunLstat(fs, target).lstat_ok THEN target
    ELSE IF CharAt(target, 1) = "/" THEN target
    ELSE fs.cwd \o "/" \o target

\* fnmatch(pattern, name, 0) == 0 for patterns of literal characters and '?'.
FnMatch(pattern, name) ==
    /\ Len(pattern) = Len(name)
    /\ \A i \in 1..Len(pattern) :
          CharAt(pattern, i) = "?" \/ CharAt(pattern, i) = CharAt(name, i)

\* What an element of the entries array holds where nothing was stored yet:
\* realloc and malloc do not clear the memory, so git_status[0] is the NUL
\* byte or any other byte.
HeapBytes == {"", "G"}

\* create_file_entry(&entry, path) on an element whose git_status bytes are
\* heap: the return value and the element.  get_emoji is called before
\* lstat; git_status is not assigned.
create_file_entry(fs, path, heap) ==
    LET st == RunLstat(fs, path)
    IN  [ret |-> IF st.lstat_ok THEN 0 ELSE -1,
         entry |-> [name |-> path,
                    emoji |-> get_emoji(path, st, TRUE).value,
                    is_directory |-> BoolInt(st.type = "dir"),
                    is_hidden |-> BoolInt(StartsWithDot(path)),
                    git_status |-> heap,
                    git_written |-> FALSE]]

\* The events a run leaves behind, in order.
Event(kind, name) == [kind |-> kind, name |-> name]

\* The loop of process_directory and of process_files_or_patterns over the
\* names: made[i] is create_file_entry for names[i].
RECURSIVE ScanEntries(_, _)
ScanEntries(made, i) ==
    IF i > Len(made) THEN <<>>
    ELSE (IF made[i].ret = 0 THEN <<made[i].entry>> ELSE <<>>) \o ScanEntries(made, i + 1)

RECURSIVE ScanLog(_, _)
ScanLog(made, i) ==
    IF i > Len(made) THEN <<>>
    ELSE <<Event("classify", made[i].entry.name)>>
            \o (IF made[i].ret = 0 THEN <<>>
                ELSE <<Event("warning", made[i].entry.name)>>)
            \o ScanLog(made, i + 1)

\* git_integration.c:62-98  integrate_git_status: nothing outside a work
\* tree; inside, every entry gathered so far gets its status ("M" for a.c,
\* none for the others).
integrate_git_status(fs, gathered) ==
    IF ~fs.git THEN gathered
    ELSE [i \in 1..Len(gathered) |->
            [gathered[i] EXCEPT !.git_status = IF gathered[i].name = "a.c" THEN "M" ELSE "",
                                !.git_written = TRUE]]

\* main.c:78-119  process_directory(".") with the heap bytes the new
\* elements hold: the entries array and the events.
process_directory(fs, gathered, heap) ==
    LET names == Listing(fs)
        made == [i \in 1..Len(names) |-> create_file_entry(fs, names[i], heap[i])]
    IN  [ret |-> 0,
         entries |-> integrate_git_status(fs, gathered \o ScanEntries(made, 1)),
         log |-> ScanLog(made, 1)]

\* main.c:134-177  process_files_or_patterns with one pattern.
process_files_or_patterns(fs, pattern, gathered, heap) ==
    LET names == SelectSeq(Listing(fs), LAMBDA n : FnMatch(pattern, n))
        made == [i \in 1..Len(names) |-> create_file_entry(fs, names[i], heap[i])]
        all == gathered \o ScanEntries(made, 1)
    IN  [ret |-> IF Len(all) > 0 THEN 0 ELSE -1,
         entries |-> all,
         log |-> ScanLog(made, 1)]

\* main.c:204-243  process_target.  chdir, opendir and realloc are taken
\* to succeed.
process_target(fs, target, gathered, heap) ==
    IF is_directory(fs, target) # 0 THEN process_directory(fs, gathered, heap)
    ELSE IF is_glob_pattern(target)
    THEN process_files_or_patterns(fs, target, gathered, heap)
    ELSE LET made == create_file_entry(fs, target, heap[1])
         IN  IF made.ret # 0
             THEN [ret |-> -1, entries |-> gathered,
                   log |-> <<Event("classify", target), Event("unable", target)>>]
             ELSE [ret |-> 0, entries |-> Append(gathered, made.entry),
                   log |-> <<Event("classify", target)>>]

\* dev_dir_utils.c:49-139  handle_dev_directory: an entry for every name
\* lstat succeeds for, none (and no message) for the others.
DevEntry(fs, name, heap) ==
    LET st == RunLstat(fs, "/dev/" \o name)
    IN  [name |-> name,
         emoji |-> handle_dev_emoji(st, name, TRUE).value,
         is_directory |-> BoolInt(st.type = "dir"),
         is_hidden |-> BoolInt(StartsWithDot(name)),
         git_status |-> heap,
         git_written |-> FALSE]

handle_dev_directory(fs, heap) ==
    LET names == SelectSeq(Listing(fs), LAMBDA n : RunLstat(fs, "/dev/" \o n).lstat_ok)
    IN  [ret |-> 0,
         entries |-> [i \in 1..Len(names) |-> DevEntry(fs, names[i], heap[i])],
         log |-> [i \in 1..Len(names) |-> Event("classify", names[i])]]

-----------------------------------------------------------------------------
(* longlisting.c: print_longlisting, print_longlisting_files *)

\* get_file_info(path): -1 when lstat fails, else the struct file_info
\* (sizes and subdirectory counts of the run's files are 0).
get_file_info(fs, path) ==
    LET st == RunLstat(fs, path)
    IN  [ret |-> IF st.lstat_ok THEN 0 ELSE -1,
         info |-> [name |-> path, full_path |-> path,
                   is_dir |-> BoolInt(st.type = "dir"), subdir_count |-> 0, size |-> 0]]

RECURSIVE InfoEntries(_, _)
InfoEntries(made, i) ==
    IF i > Len(made) THEN <<>>
    ELSE (IF made[i].ret = 0 THEN <<made[i].info>> ELSE <<>>) \o InfoEntries(made, i + 1)

\* glob(pattern, GLOB_TILDE, NULL, &globbuf): the listed names that match a
\* pattern, or the path itself when it has no wildcard and exists.
GlobPaths(fs, pattern) ==
    IF is_glob_pattern(pattern)
    THEN SelectSeq(Listing(fs), LAMBDA n : FnMatch(pattern, n))
    ELSE IF RunLstat(fs, pattern).lstat_ok THEN <<pattern>> ELSE <<>>

\* longlisting.c:339-357  the entries print_longlisting_files gathers from
\* patterns[i..].
RECURSIVE LongFilesFrom(_, _, _)
LongFilesFrom(fs, patterns, i) ==
    IF i > Len(patterns) THEN <<>>
    ELSE LET paths == GlobPaths(fs, patterns[i])
             made == [j \in 1..Len(paths) |-> get_file_info(fs, paths[j])]
         IN  InfoEntries(made, 1) \o LongFilesFrom(fs, patterns, i + 1)

\* longlisting.c:306-331  the entries print_longlisting gathers from path.
LongDirectory(fs, path) ==
    LET names == Listing(fs)
        made == [j \in 1..Len(names) |-> get_file_info(fs, path \o "/" \o names[j])]
    IN  InfoEntries(made, 1)

\* main.c:255-262
is_glob_or_specific_files(fs, targets) ==
    \E i \in 1..Len(targets) : is_glob_pattern(targets[i]) \/ is_directory(fs, targets[i]) = 0

\* qsort(entries, entry_count, sizeof(struct file_info), compare_entries)
RECURSIVE QsortLongPrefix(_, _)
QsortLongPrefix(arr, n) ==
    IF n = 0 THEN {<<>>}
    ELSE UNION {{InsertAt(s, p, arr[n]) : p \in
                    {q \in 0..Len(s) :
                        /\ \A i \in 1..q : compare_entries(s[i], arr[n]) <= 0
                        /\ \A i \in (q + 1)..Len(s) : compare_entries(arr[n], s[i]) <= 0}} :
                s \in QsortLongPrefix(arr, n - 1)}

QsortLongResults(arr) == QsortLongPrefix(arr, Len(arr))

-----------------------------------------------------------------------------
(* main.c: main *)

\* ioctl(STDOUT_FILENO, TIOCGWINSZ, &w); term_width = w.ws_col
RunTermWidth == 40

\* The bytes of a name, as display_entries reads them.
NameBytes(s) == [i \in 1..Len(s) |-> CByte(s, i)]

\* The heap bytes of the elements a step may fill.
Heaps == [1..MaxListing -> HeapBytes]

Exit(status) ==
    /\ r_exit' = status
    /\ r_pc' = "done"

RunQuiet == UNCHANGED <<w_vars, c_vars, m_vars, e_vars, d_vars, a_vars>>

\* main.c:276
RunParse ==
    /\ r_pc = "start"
    /\ r_args' = parse_args(r_argv)
    /\ r_pc' = "parsed"
    /\ UNCHANGED <<r_argv, r_fs, r_next, r_entries, r_log, r_exit>>
    /\ RunQuiet

\* main.c:279-283
RunVersion ==
    /\ r_pc = "parsed"
    /\ r_args.show_version
    /\ r_log' = Append(r_log, Event("version", ""))
    /\ Exit("EXIT_SUCCESS")
    /\ UNCHANGED <<r_argv, r_args, r_fs, r_next, r_entries>>
    /\ RunQuiet

\* main.c:286-290
RunHelp ==
    /\ r_pc = "parsed"
    /\ ~r_args.show_version
    /\ r_args.show_help
    /\ r_log' = Append(r_log, Event("help", ""))
    /\ Exit("EXIT_SUCCESS")
    /\ UNCHANGED <<r_argv, r_args, r_fs, r_next, r_entries>>
    /\ RunQuiet

\* main.c:293-298
RunInvalidOption ==
    /\ r_pc = "parsed"
    /\ ~r_args.show_version
    /\ ~r_args.show_help
    /\ r_args.invalid_opt # NullPtr
    /\ r_log' = Append(r_log, Event("unrecognized option", r_args.invalid_opt))
    /\ Exit("EXIT_FAILURE")
    /\ UNCHANGED <<r_argv, r_args, r_fs, r_next, r_entries>>
    /\ RunQuiet

\* The options main returns for are all absent.
PastOptions ==
    /\ r_pc = "parsed"
    /\ ~r_args.show_version
    /\ ~r_args.show_help
    /\ r_args.invalid_opt = NullPtr

\* main.c:302-306
RunGetcwdError ==
    /\ PastOptions
    /\ ~r_fs.getcwd_ok
    /\ r_log' = Append(r_log, Event("getcwd() error", ""))
    /\ Exit("EXIT_FAILURE")
    /\ UNCHANGED <<r_argv, r_args, r_fs, r_next, r_entries>>
    /\ RunQuiet

\* main.c:309-314 and the part of print_longlisting or
\* print_longlisting_files before print_sorted_entries: gather, then sort.
RunLongListing ==
    /\ PastOptions
    /\ r_fs.getcwd_ok
    /\ r_args.show_longlisting
    /\ LET targets == r_args.targets
           files == Len(targets) > 0 /\ is_glob_or_specific_files(r_fs, targets)
           found == IF files THEN LongFilesFrom(r_fs, targets, 1)
                    ELSE LongDirectory(r_fs, IF Len(targets) > 0 THEN targets[1] ELSE ".")
       IN  IF files /\ found = <<>>
           THEN /\ r_log' = Append(r_log, Event("No matching files found.", ""))
                /\ r_pc' = "long_returned"
                /\ UNCHANGED r_entries
           ELSE /\ r_entries' \in QsortLongResults(found)
                /\ r_log' = Append(r_log, Event("sort", ""))
                /\ r_pc' = "long_print"
    /\ r_next' = 0
    /\ UNCHANGED <<r_argv, r_args, r_fs, r_exit>>
    /\ RunQuiet

\* longlisting.c:280-298  one iteration of print_sorted_entries: get_emoji,
\* then the row.
RunLongPrintEntry ==
    /\ r_pc = "long_print"
    /\ r_next < Len(r_entries)
    /\ r_log' = r_log \o <<Event("classify", r_entries[r_next + 1].full_path),
                           Event("row", r_entries[r_next + 1].name)>>
    /\ r_next' = r_next + 1
    /\ UNCHANGED <<r_argv, r_args, r_fs, r_entries, r_exit, r_pc>>
    /\ RunQuiet

\* main.c:315-316
RunLongReturn ==
    /\ \/ r_pc = "long_returned"
       \/ r_pc = "long_print" /\ r_next = Len(r_entries)
    /\ Exit("EXIT_SUCCESS")
    /\ UNCHANGED <<r_argv, r_args, r_fs, r_next, r_entries, r_log>>
    /\ RunQuiet

\* main.c:320-324
RunAnalytics ==
    /\ PastOptions
    /\ r_fs.getcwd_ok
    /\ ~r_args.show_longlisting
    /\ r_args.show_dir_analytics
    /\ r_log' = Append(r_log, Event("analytics", ""))
    /\ Exit("EXIT_SUCCESS")
    /\ UNCHANGED <<r_argv, r_args, r_fs, r_next, r_entries>>
    /\ RunQuiet

\* main.c:327-340
RunBeginListing ==
    /\ PastOptions
    /\ r_fs.getcwd_ok
    /\ ~r_args.show_longlisting
    /\ ~r_args.show_dir_analytics
    /\ r_entries' = <<>>
    /\ r_next' = 0
    /\ r_pc' = "targets"
    /\ UNCHANGED <<r_argv, r_args, r_fs, r_log, r_exit>>
    /\ RunQuiet

\* main.c:345-360  one iteration of the loop over the targets.
RunTarget ==
    /\ r_pc = "targets"
    /\ r_next < Len(r_args.targets)
    /\ \E heap \in Heaps :
          LET target == r_args.targets[r_next + 1]
              done == process_target(r_fs, target, r_entries, heap)
          IN  /\ r_entries' = done.entries
              /\ IF done.ret # 0
                 THEN /\ r_log' = r_log \o done.log \o <<Event("Error processing", target)>>
                      /\ r_pc' = "cleanup"
                 ELSE /\ r_log' = r_log \o done.log
                      /\ r_pc' = IF r_next + 1 = Len(r_args.targets)
                                 THEN "gathered" ELSE "targets"
    /\ r_next' = r_next + 1
    /\ UNCHANGED <<r_argv, r_args, r_fs, r_exit>>
    /\ RunQuiet

\* main.c:363-368
RunDevDirectory ==
    /\ r_pc = "targets"
    /\ Len(r_args.targets) = 0
    /\ r_fs.cwd = "/dev"
    /\ \E heap \in Heaps :
          LET done == handle_dev_directory(r_fs, heap)
          IN  /\ r_entries' = done.entries
              /\ r_log' = r_log \o done.log
    /\ r_pc' = "gathered"
    /\ UNCHANGED <<r_argv, r_args, r_fs, r_next, r_exit>>
    /\ RunQuiet

\* main.c:369-375
RunCurrentDirectory ==
    /\ r_pc = "targets"
    /\ Len(r_args.targets) = 0
    /\ r_fs.cwd # "/dev"
    /\ \E heap \in Heaps :
          LET done == process_directory(r_fs, r_entries, heap)
          IN  /\ r_entries' = done.entries
              /\ r_log' = r_log \o done.log
    /\ r_pc' = "gathered"
    /\ UNCHANGED <<r_argv, r_args, r_fs, r_next, r_exit>>
    /\ RunQuiet

\* main.c:379-389
RunNoFilesFound ==
    /\ r_pc = "gathered"
    /\ Len(r_entries) = 0
    /\ r_log' = Append(r_log, Event("No files found", ""))
    /\ r_pc' = "cleanup"
    /\ UNCHANGED <<r_argv, r_args, r_fs, r_next, r_entries, r_exit>>
    /\ RunQuiet

\* main.c:392-397  qsort, and the call of display_entries with the sorted
\* array, term_width, display_path and show_path.
RunSortAndDisplay ==
    /\ r_pc = "gathered"
    /\ Len(r_entries) # 0
    /\ r_entries' \in QsortResults(r_entries)
    /\ r_log' = Append(r_log, Event("sort", ""))
    /\ d_entries' = [i \in 1..Len(r_entries) |->
                        [name |-> NameBytes(r_entries'[i].name),
                         emoji |-> r_entries'[i].emoji,
                         git_status |-> r_entries'[i].git_status]]
    /\ d_term_width' = RunTermWidth
    /\ d_dir' = IF Len(r_args.targets) = 0 THEN r_fs.cwd
                ELSE TargetDisplayPath(r_fs, r_args.targets[Len(r_args.targets)])
    /\ d_show_path' = IF Len(r_args.targets) = 0 THEN 1 ELSE 0
    /\ d_pc' = "start"
    /\ r_pc' = "display"
    /\ UNCHANGED <<d_entry_widths, d_num_columns, d_rows, d_column_widths, d_row, d_col,
                   d_out, d_err>>
    /\ UNCHANGED <<r_argv, r_args, r_fs, r_next, r_exit>>
    /\ UNCHANGED <<w_vars, c_vars, m_vars, e_vars, a_vars>>

\* main.c:400-409  cleanup, reached by goto or after display_entries returned.
RunCleanup ==
    /\ \/ r_pc = "cleanup"
       \/ r_pc = "display" /\ d_pc = "returned"
    /\ Exit(IF Len(r_entries) > 0 THEN "EXIT_SUCCESS" ELSE "EXIT_FAILURE")
    /\ UNCHANGED <<r_argv, r_args, r_fs, r_next, r_entries, r_log>>
    /\ RunQuiet

RunInit ==
    /\ r_argv \in RunArgvs
    /\ r_fs \in RunFileSystems
    /\ r_args = <<>> /\ r_next = 0 /\ r_entries = <<>>
    /\ r_log = <<>> /\ r_exit = "none" /\ r_pc = "start"
    /\ WidthIdle
    /\ CompareIdle
    /\ MainIdle
    /\ EmojiIdle
    /\ DisplayIdle
    /\ AllocIdle

RunNext ==
    \/ RunParse \/ RunVersion \/ RunHelp \/ RunInvalidOption \/ RunGetcwdError
    \/ RunLongListing \/ RunLongPrintEntry \/ RunLongReturn \/ RunAnalytics
    \/ RunBeginListing \/ RunTarget \/ RunDevDirectory \/ RunCurrentDirectory
    \/ RunNoFilesFound \/ RunSortAndDisplay
    \/ DisplayBegin \/ DisplayLayout \/ DisplayCell \/ DisplayNewline \/ DisplayReturn
    \/ RunCleanup

SpecRun == RunInit /\ [][RunNext]_vars

-----------------------------------------------------------------------------
(* main.c: allocate_entries and the loops that add entries to the array; *)
(* dev_dir_utils.c: the array in handle_dev_directory                     *)

INITIAL_ENTRIES == 512

INITIAL_DEV_ENTRIES == 64

\* The functions main calls with &entries, &num_entries and &current_size.
AllocTargets == {"process_directory", "process_files_or_patterns", "single_file"}

\* main.c:49  new_size.  current_size is an int; with at most MaxGathered
\* entries its double stays far below INT_MAX.
allocate_entries_new_size(ptr, size) ==
    IF ptr = "NULL" THEN INITIAL_ENTRIES ELSE size * 2

\* dev_dir_utils.c:82  new_size
dev_new_size(size) == size * 2

needs_room_when_past(num, size) == num > size

\* main.c:92, 153, 228; dev_dir_utils.c:80  the test before an element is used
needs_room(num, size) == num >= size

AllocQuiet == UNCHANGED <<w_vars, c_vars, m_vars, e_vars, d_vars, r_vars>>

\* main.c:342-360  main calls process_target for the next target, which is
\* a directory, a pattern or a single file (main.c:205, 226, 228).
AllocCallTarget ==
    /\ a_pc = "main"
    /\ a_calls < MaxCalls
    /\ a_fn \in {"none"} \cup AllocTargets
    /\ a_fn' \in AllocTargets
    /\ a_calls' = a_calls + 1
    /\ a_pc' = "loop"
    /\ UNCHANGED <<a_entries, a_num_entries, a_current_size, a_sizes>>
    /\ AllocQuiet

\* main.c:369-375  no target: process_directory(".").
AllocCallCurrentDirectory ==
    /\ a_pc = "main"
    /\ a_fn = "none"
    /\ a_fn' = "current_directory"
    /\ a_calls' = a_calls + 1
    /\ a_pc' = "loop"
    /\ UNCHANGED <<a_entries, a_num_entries, a_current_size, a_sizes>>
    /\ AllocQuiet

\* main.c:363-368, dev_dir_utils.c:61-70  no target in /dev:
\* handle_dev_directory and its first malloc, which succeeds or fails.
AllocCallDevDirectory ==
    /\ a_pc = "main"
    /\ a_fn = "none"
    /\ a_fn' = "handle_dev_directory"
    /\ a_calls' = a_calls + 1
    /\ \E malloc_ok \in BOOLEAN :
          IF a_entries # "NULL"
          THEN /\ a_pc' = "loop"
               /\ UNCHANGED <<a_entries, a_current_size, a_sizes>>
          ELSE IF malloc_ok
          THEN /\ a_entries' = "heap"
               /\ a_current_size' = INITIAL_DEV_ENTRIES
               /\ a_sizes' = Append(a_sizes, INITIAL_DEV_ENTRIES)
               /\ a_pc' = "loop"
          ELSE /\ a_pc' = "failed"
               /\ UNCHANGED <<a_entries, a_current_size, a_sizes>>
    /\ UNCHANGED a_num_entries
    /\ AllocQuiet

\* main.c:91-97, 151-158, 227-232; dev_dir_utils.c:79-92  readdir returned a
\* name that gets an element (or the single file does): the array grows
\* when it is full, and realloc succeeds or fails.
AllocRoom ==
    /\ a_pc = "loop"
    /\ a_num_entries < MaxGathered
    /\ \E realloc_ok \in BOOLEAN :
          IF ~needs_room(a_num_entries, a_current_size)
          THEN /\ a_pc' = "write"
               /\ UNCHANGED <<a_entries, a_current_size, a_sizes>>
          ELSE IF realloc_ok
          THEN LET new_size == IF a_fn = "handle_dev_directory"
                               THEN dev_new_size(a_current_size)
                               ELSE allocate_entries_new_size(a_entries, a_current_size)
               IN  /\ a_entries' = "heap"
                   /\ a_current_size' = new_size
                   /\ a_sizes' = Append(a_sizes, new_size)
                   /\ a_pc' = "write"
          ELSE /\ a_pc' = "failed"
               /\ UNCHANGED <<a_entries, a_current_size, a_sizes>>
    /\ UNCHANGED <<a_fn, a_num_entries, a_calls>>
    /\ AllocQuiet

\* main.c:104-110, 161-168, 234-240; dev_dir_utils.c:97-131  the element at
\* index num_entries is filled; num_entries is incremented when that
\* succeeded.  A failure ends the call for a single file and in
\* handle_dev_directory, and is a warning in the two scans.
AllocWrite ==
    /\ a_pc = "write"
    /\ \E filled \in BOOLEAN :
          /\ a_num_entries' = IF filled THEN a_num_entries + 1 ELSE a_num_entries
          /\ a_pc' = IF a_fn = "single_file"
                     THEN (IF filled THEN "main" ELSE "failed")
                     ELSE IF a_fn = "handle_dev_directory" /\ ~filled THEN "failed"
                     ELSE "loop"
    /\ UNCHANGED <<a_fn, a_entries, a_current_size, a_sizes, a_calls>>
    /\ AllocQuiet

\* main.c:113-118, 175-176; dev_dir_utils.c:136-137  readdir returned NULL:
\* the call returns, and main goes on with the next target, to the display
\* or to cleanup.
AllocReturn ==
    /\ a_pc = "loop"
    /\ a_fn # "single_file"
    /\ a_pc' = IF a_fn = "process_files_or_patterns" /\ a_num_entries = 0 THEN "failed"
               ELSE IF a_fn \in {"current_directory", "handle_dev_directory"} THEN "done"
               ELSE "main"
    /\ UNCHANGED <<a_fn, a_entries, a_num_entries, a_current_size, a_sizes, a_calls>>
    /\ AllocQuiet

\* main.c:378-397  the targets are used up.
AllocDone ==
    /\ a_pc = "main"
    /\ a_calls > 0
    /\ a_pc' = "done"
    /\ UNCHANGED <<a_fn, a_entries, a_num_entries, a_current_size, a_sizes, a_calls>>
    /\ AllocQuiet

\* main.c:331-333
AllocInit ==
    /\ a_fn = "none" /\ a_entries = "NULL" /\ a_num_entries = 0 /\ a_current_size = 0
    /\ a_sizes = <<>> /\ a_calls = 0 /\ a_pc = "main"
    /\ WidthIdle
    /\ CompareIdle
    /\ MainIdle
    /\ EmojiIdle
    /\ DisplayIdle
    /\ RunIdle

AllocNext ==
    \/ AllocCallTarget \/ AllocCallCurrentDirectory \/ AllocCallDevDirectory
    \/ AllocRoom \/ AllocWrite \/ AllocReturn \/ AllocDone

SpecAlloc == AllocInit /\ [][AllocNext]_vars

-----------------------------------------------------------------------------
(* Properties of the comparators *)

Sign(x) == IF x < 0 THEN -1 ELSE IF x > 0 THEN 1 ELSE 0

\* The bytes of s without case.
FoldCase(s) == [i \in 1..Len(s) |-> tolower(CByte(s, i))]

\* x is before y in the lexicographic order of byte sequences.
LexLess(x, y) ==
    \E k \in 1..Len(y) :
        /\ k <= Len(x) + 1
        /\ \A j \in 1..(k - 1) : x[j] = y[j]
        /\ (k = Len(x) + 1 \/ x[k] < y[k])

NameLess(m, n) == LexLess(FoldCase(m), FoldCase(n))

\* The suffix after the last '.', none when the only '.' leads the name.
ExtensionOf(name) ==
    LET dots == {i \in 2..Len(name) : CharAt(name, i) = "."}
    IN  IF dots = {} THEN ""
        ELSE SubSeq(name, (CHOOSE i \in dots : \A j \in dots : j <= i) + 1, Len(name))

HasExtension(name) == ExtensionOf(name) # ""

CardCompared == c_kind = "card" /\ c_res # <<>>
LongCompared == c_kind = "long" /\ c_res # <<>>
TwoFiles == c_a.is_directory = 0 /\ c_b.is_directory = 0
SameHiddenClass == StartsWithDot(c_a.name) = StartsWithDot(c_b.name)

C5_DifferentNamesNeverEqual ==
    ((CardCompared \/ LongCompared) /\ c_a.name # c_b.name) => c_res.ab # 0

DirBeforeFileAndHiddenFirst(r) ==
    /\ (c_a.is_directory = 1 /\ c_b.is_directory = 0) => (r.ab < 0 /\ r.ba > 0)
    /\ (/\ c_a.is_directory = c_b.is_directory
        /\ StartsWithDot(c_a.name) /\ ~StartsWithDot(c_b.name)) => (r.ab < 0 /\ r.ba > 0)

\* C6: under the default comparator (file_card.c, and the older file_entry.c)
\* every directory sorts before every file, and within the directories and
\* within the files every hidden entry sorts before every non-hidden entry.
C6_DirsFirstHiddenFirst ==
    c_kind = "card" =>
        /\ c_res # <<>> => DirBeforeFileAndHiddenFirst(c_res)
        /\ c_old # <<>> => DirBeforeFileAndHiddenFirst(c_old)

\* A hidden file with the later extension against a visible file.
C6_Witness ==
    /\ CardCompared /\ c_old # <<>>
    /\ c_a = FileCard("..B", 0) /\ c_b = FileCard("a.a", 0)
    /\ c_res.ab < 0 /\ c_old.ab < 0

\* C7 as stated: two files of the same hidden class are ordered by extension
\* without case, ascending, and a file with no extension sorts after every
\* file that has one.
C7_NoExtensionLast ==
    (CardCompared /\ TwoFiles /\ SameHiddenClass) =>
        /\ (/\ HasExtension(c_a.name) /\ HasExtension(c_b.name)
            /\ NameLess(ExtensionOf(c_a.name), ExtensionOf(c_b.name))) => c_res.ab < 0
        /\ (~HasExtension(c_a.name) /\ HasExtension(c_b.name)) => c_res.ab > 0

\* C7 amended: two files of the same hidden class are ordered by extension
\* without case, ascending, and a file with no extension sorts before every
\* file that has one.
C7_NoExtensionFirst ==
    (CardCompared /\ TwoFiles /\ SameHiddenClass) =>
        /\ NameLess(ExtensionOf(c_a.name), ExtensionOf(c_b.name))
               => (c_res.ab < 0 /\ c_res.ba > 0)
        /\ (~HasExtension(c_a.name) /\ HasExtension(c_b.name)) => c_res.ab < 0

\* "B" has no extension and sorts before "a.a", against the order of the names.
C7_Witness ==
    /\ CardCompared
    /\ c_a = FileCard("B", 0) /\ c_b = FileCard("a.a", 0)
    /\ c_res.ab < 0
    /\ NameLess(c_b.name, c_a.name)

TwoDirs == c_a.is_dir = 1 /\ c_b.is_dir = 1
TwoPlainFiles == c_a.is_dir = 0 /\ c_b.is_dir = 0

-----------------------------------------------------------------------------
(* Properties of the sort *)

EntryNames == [i \in 1..Len(entries) |-> entries[i].name]

ScenarioSorted ==
    /\ m_pc = "sorted"
    /\ Len(entries) = 5
    /\ {entries[i] : i \in 1..5} = SortPool \ {FileCard("Makefile", 0)}

\* C8 as stated: src, .git, main.c, README.md and .gitignore sorted with the
\* default comparator come out as .git, src, .gitignore, README.md, main.c.
C8_ReadmeBeforeMain ==
    ScenarioSorted => EntryNames = <<".git", "src", ".gitignore", "README.md", "main.c">>

\* C8 amended: they come out as .git, src, .gitignore, main.c, README.md
\* (extension c before extension md).
C8_MainBeforeReadme ==
    ScenarioSorted => EntryNames = <<".git", "src", ".gitignore", "main.c", "README.md">>

C8_Witness ==
    /\ ScenarioSorted
    /\ EntryNames = <<".git", "src", ".gitignore", "main.c", "README.md">>

-----------------------------------------------------------------------------
(* Properties of the width calculator *)

RunLength(lead) ==
    CASE lead < 128 -> 1
      [] lead >= 128 /\ lead < 224 -> 2
      [] lead >= 224 /\ lead < 240 -> 3
      [] OTHER -> 4

\* s from index i on is a concatenation of whole byte runs.
RECURSIVE WholeRuns(_, _)
WholeRuns(s, i) ==
    IF i = Len(s) + 1 THEN TRUE
    ELSE IF i > Len(s) + 1 THEN FALSE
    ELSE WholeRuns(s, i + RunLength(s[i]))

RECURSIVE RunWidth(_, _)
RunWidth(s, i) ==
    IF i > Len(s) THEN 0
    ELSE (IF RunLength(s[i]) = 4 THEN 2 ELSE 1) + RunWidth(s, i + RunLength(s[i]))

\* C10: the width returned for a string made of whole byte runs is the sum
\* over its runs (a run led by a byte < 0x80 has 1 byte, < 0xE0 2, < 0xF0 3,
\* otherwise 4; a 4-byte run counts 2, any other run 1); the empty string has
\* width 0, an ASCII string its byte length, a single 4-byte run width 2.
C10_WidthIsSumOverRuns ==
    (w_pc = "done" /\ WholeRuns(w_str, 1)) =>
        /\ w_width = RunWidth(w_str, 1)
        /\ w_str = <<>> => w_width = 0
        /\ (\A i \in 1..Len(w_str) : w_str[i] < 128) => w_width = Len(w_str)
        /\ (Len(w_str) = 4 /\ w_str[1] >= 240) => w_width = 2

C10_Witness ==
    /\ w_pc = "done"
    /\ w_str = <<240, 128, 128, 128>>
    /\ w_width = 2

\* C21: for every NUL-terminated byte string, also one that ends in a
\* truncated multi-byte run, get_display_width never moves its read
\* position past the string's terminator, and the scan does not fault.
C21_ReadStaysInsideString ==
    /\ w_pos <= Len(w_str) + 1
    /\ w_pc # "crashed"

-----------------------------------------------------------------------------
(* Properties of the classifier *)

\* C1: get_emoji and get_dev_emoji return a non-empty glyph for every entry:
\* never a null pointer and never the empty string.
C1_GlyphNeverNullNorEmpty ==
    e_pc \in {"first", "dev"} => (e_ret.value # NullPtr /\ e_ret.value # "")

BothReturned == e_pc = "second"

ExactFileNames == {emoji_exact_file_map[i][1] : i \in 1..Len(emoji_exact_file_map)}

ExactFileEmoji(name) ==
    emoji_exact_file_map[CHOOSE i \in 1..Len(emoji_exact_file_map) :
        /\ emoji_exact_file_map[i][1] = name
        /\ \A j \in 1..(i - 1) : emoji_exact_file_map[j][1] # name][2]

\* C3: a regular file whose name is a key of the table of exact file names
\* gets that table's glyph, also when its extension is one of the extension
\* rules.
C3_ExactNameBeforeExtension ==
    (/\ e_pc = "first"
     /\ e_st.lstat_ok /\ e_st.type = "reg"
     /\ e_ret.value # NullPtr
     /\ e_path \in ExactFileNames) => e_ret.value = ExactFileEmoji(e_path)

\* C23: a symbolic link whose target is a directory gets the link-to-directory
\* glyph and every other symbolic link the plain link glyph; a directory that
\* is not a symbolic link gets the folder glyph; in get_emoji and in
\* handle_dev_directory alike.
C23_LinkAndFolderGlyphs ==
    (e_pc \in {"first", "dev_entry"} /\ e_st.lstat_ok /\ e_ret.value # NullPtr) =>
        /\ (e_st.type = "lnk" /\ e_st.target = "dir") =>
              e_ret.value = (IF e_pc = "first" THEN EmojiLinkToDir ELSE DevDirEmojiLinkToDir)
        /\ (e_st.type = "lnk" /\ e_st.target # "dir") =>
              e_ret.value = (IF e_pc = "first" THEN EmojiLink ELSE DevDirEmojiLink)
        /\ e_st.type = "dir" =>
              e_ret.value = (IF e_pc = "first" THEN EmojiDir ELSE DevDirEmojiDir)

UpperLetters == "ABCDEFGHIJKLMNOPQRSTUVWXYZ"

LowerOf(ch) ==
    IF \E i \in 1..Len(UpperLetters) : CharAt(UpperLetters, i) = ch
    THEN CharAt(AsciiFrom97, CHOOSE i \in 1..Len(UpperLetters) : CharAt(UpperLetters, i) = ch)
    ELSE ch

RECURSIVE LowerString(_)
LowerString(s) ==
    IF Len(s) = 0 THEN "" ELSE LowerOf(CharAt(s, 1)) \o LowerString(SubSeq(s, 2, Len(s)))

\* The name with the suffix after its last '.' in lower case.
LowerExtension(name) ==
    IF LastDot(name) = 0 THEN name
    ELSE SubSeq(name, 1, LastDot(name))
            \o LowerString(SubSeq(name, LastDot(name) + 1, Len(name)))

\* C24: the extension rule ignores letter case: a regular file gets the glyph
\* that the same file would get with its extension in lower case (a.PNG the
\* glyph of a.png).
C24_ExtensionIgnoresCase ==
    (e_pc = "first" /\ e_st.lstat_ok /\ e_st.type = "reg" /\ e_ret.value # NullPtr) =>
        e_ret.value = EmojiFor(LowerExtension(e_path), e_st)

\* emoji_mappings.c: the device tables, each row a name or a prefix and the
\* glyph as the hexadecimal digits of its bytes.
emoji_exact_dev_file_map == <<
    <<"loop", "f09f9481">>,
    <<"null", "f09f95b3efb88f20">>,
    <<"zero", "f09f95b3efb88f20">>,
    <<"random", "f09f8eb2">>,
    <<"urandom", "f09f8eb2">>,
    <<"usb", "f09f948c">>,
    <<"vga_arbiter", "f09f96bcefb88f20">>,
    <<"vhci", "f09f948c">>,
    <<"vhost-net", "f09f8c90">>,
    <<"vhost-vsock", "f09f92ac">>,
    <<"mcelog", "f09f938b">>,
    <<"media0", "f09f8eac">>,
    <<"mei0", "f09fa7a0">>,
    <<"mem", "f09f9784efb88f20">>,
    <<"hpet", "e28fb1efb88f">>,
    <<"hwrng", "f09f8eb2">>,
    <<"kmsg", "f09f939c">>,
    <<"kvm", "f09f8cb0">>,
    <<"zram", "f09f979cefb88f">>,
    <<"udmabuf", "f09f9484">>,
    <<"uhid", "f09f95b9efb88f">>,
    <<"rfkill", "f09f93a1">>,
    <<"ppp", "f09f8c90">>,
    <<"ptmx", "f09f96a5efb88f20">>,
    <<"userfaultfd", "f09f9aa7">>,
    <<"nvram", "f09f9784efb88f20">>,
    <<"port", "f09f948c">>,
    <<"autofs", "f09f9a97">>,
    <<"btrfs-control", "f09f8cb3">>,
    <<"console", "f09f96a5efb88f20">>,
    <<"full", "f09f9492">>,
    <<"fuse", "f09f94a5">>,
    <<"gpiochip0", "f09f938c">>,
    <<"cuse", "f09fa7a9">>,
    <<"cpu_dma_latency", "e28fb1efb88f">>
>>

emoji_prefix_dev_map == <<
    <<"loop", "f09f9481">>,
    <<"sd", "f09f92bd">>,
    <<"tty", "f09f96a5efb88f20">>,
    <<"usb", "f09f948c">>,
    <<"video", "f09f8ea5">>,
    <<"nvme", "f09f92bd">>,
    <<"lp", "f09f96a8efb88f">>,
    <<"hidraw", "e28ca8efb88f20">>,
    <<"vcs", "f09f939f">>,
    <<"vcsa", "f09f939f">>,
    <<"ptp", "f09f95b0efb88f20">>,
    <<"rtc", "f09f95b0efb88f20">>,
    <<"watchdog", "f09f9095">>,
    <<"mtd", "e29aa1">>,
    <<"i2c", "f09f9a8c">>,
    <<"dm-", "f09fa7b3">>,
    <<"vhost", "f09f9b97">>
>>

\* The glyph the device tables give a name: the first exact row, else the
\* first prefix row, else the generic device glyph.
FirstRow(table, hit(_)) ==
    CHOOSE i \in 1..Len(table) : hit(table[i][1]) /\ \A j \in 1..(i - 1) : ~hit(table[j][1])

TableDevEmoji(name) ==
    LET exact(key) == key = name
        prefix(key) == HasPrefix(name, key)
    IN  IF \E i \in 1..Len(emoji_exact_dev_file_map) : exact(emoji_exact_dev_file_map[i][1])
        THEN emoji_exact_dev_file_map[FirstRow(emoji_exact_dev_file_map, exact)][2]
        ELSE IF \E i \in 1..Len(emoji_prefix_dev_map) : prefix(emoji_prefix_dev_map[i][1])
        THEN emoji_prefix_dev_map[FirstRow(emoji_prefix_dev_map, prefix)][2]
        ELSE DevEmojiOther

\* C25: in device context a device entry gets the glyph of the row of the
\* exact-name table that equals its name, else of the first row of the prefix
\* table its name starts with, else the generic device glyph.
C25_DeviceTablesDecide ==
    (e_pc = "dev" /\ e_ret.value # NullPtr) =>
        e_ret.value = TableDevEmoji(SubSeq(e_path, LastSlash(e_path) + 1, Len(e_path)))

\* C27: every glyph get_emoji or get_dev_emoji copies is at most 4 bytes
\* long, so the copy with its terminator stays inside the EmojiBufferSize
\* bytes allocated.
C27_GlyphFitsBuffer ==
    (e_pc \in {"first", "dev"} /\ e_ret.value # NullPtr) =>
        /\ Len(e_ret.value) \div 2 <= 4
        /\ e_ret.overrun = 0

\* C29: get_emoji gives an entry the same glyph whether it is called with
\* the bare name (grid view) or with directory/name (detailed view).
C29_GlyphIgnoresDirectoryPrefix ==
    (e_pc = "full_path" /\ e_ret.value # NullPtr /\ e_ret2.value # NullPtr) =>
        e_ret.value = e_ret2.value

-----------------------------------------------------------------------------
(* Properties of the grid layout *)

Clamp(x, lo, hi) == IF x < lo THEN lo ELSE IF x > hi THEN hi ELSE x

ColumnCap(dir) == CASE dir = "/dev" -> 6 [] dir = "/proc" -> 5 [] OTHER -> 4

LaidOut == d_pc = "print" \/ (d_pc = "returned" /\ d_err = <<>>)

Printed == d_pc = "returned" /\ d_err = <<>>

MaxEntryWidth ==
    CHOOSE m \in {d_entry_widths[i] : i \in 1..Len(d_entry_widths)} :
        \A i \in 1..Len(d_entry_widths) : d_entry_widths[i] <= m

\* C11: the number of columns is
\* clamp(floor((terminal_width + 2) / (max_entry_width + 2)), 1, max_columns),
\* never above max_columns and never below 1.
C11_ColumnsClamped ==
    LaidOut =>
        /\ d_num_columns =
              Clamp((d_term_width + 2) \div (MaxEntryWidth + 2), 1, ColumnCap(d_dir))
        /\ d_num_columns <= ColumnCap(d_dir)
        /\ d_num_columns >= 1

\* An entry of width 13 in a terminal of width 10: one column.
C11_Witness ==
    /\ LaidOut
    /\ d_term_width = 10
    /\ MaxEntryWidth = 13
    /\ d_num_columns = 1

EntryCells == {k \in 1..Len(d_out) : d_out[k].kind = "entry"}

CeilDiv(a, b) == IF a % b = 0 THEN a \div b ELSE a \div b + 1

\* C12: with rows = ceil(entry_count / columns) the entry at flat index i is
\* printed exactly once, in column i / rows and row i % rows, and its column
\* is below the column count.
C12_ColumnMajorOnce ==
    Printed =>
        LET rows == CeilDiv(Len(d_entries), d_num_columns)
        IN  /\ d_rows = rows
            /\ \A i \in 0..(Len(d_entries) - 1) :
                  /\ Cardinality({k \in EntryCells : d_out[k].index = i}) = 1
                  /\ \A k \in EntryCells :
                        d_out[k].index = i =>
                            /\ d_out[k].col = i \div rows
                            /\ d_out[k].row = i % rows
                            /\ d_out[k].col < d_num_columns

\* Five entries in three columns of two rows: the last one is alone in column 2.
C12_Witness ==
    /\ Printed
    /\ Len(d_entries) = 5 /\ d_num_columns = 3 /\ d_rows = 2
    /\ \E k \in EntryCells : d_out[k].index = 4 /\ d_out[k].col = 2 /\ d_out[k].row = 0

\* Terminal width 40, max columns 4, five entries of printed width 10 each.
Scenario13 ==
    /\ Printed
    /\ d_term_width = 40
    /\ ColumnCap(d_dir) = 4
    /\ Len(d_entries) = 5
    /\ \A i \in 1..5 : d_entry_widths[i] = 10

\* C13 as stated: the layout uses 3 columns and 2 rows and the entry at flat
\* index 3 lands in column 1, row 0.
C13_Index3Row0 ==
    Scenario13 =>
        /\ d_num_columns = 3 /\ d_rows = 2
        /\ \E k \in EntryCells : d_out[k].index = 3 /\ d_out[k].col = 1 /\ d_out[k].row = 0

\* C13 amended: the layout uses 3 columns and 2 rows and the entry at flat
\* index 3 lands in column 1, row 1.
C13_Index3Row1 ==
    Scenario13 =>
        /\ d_num_columns = 3 /\ d_rows = 2
        /\ \A k \in EntryCells : d_out[k].index = 3 => (d_out[k].col = 1 /\ d_out[k].row = 1)
        /\ \E k \in EntryCells : d_out[k].index = 3

C13_Witness ==
    /\ Scenario13
    /\ \E k \in EntryCells : d_out[k].index = 3 /\ d_out[k].col = 1 /\ d_out[k].row = 1

\* C14: in every row the last entry printed is followed directly by the
\* newline, without padding; a listing of one entry is one row without
\* trailing padding.
C14_NoTrailingPadding ==
    Printed =>
        /\ \A k \in 2..Len(d_out) :
              (d_out[k].kind = "newline" /\ d_out[k - 1].kind = "entry")
                  => d_out[k - 1].padding = 0
        /\ Len(d_entries) = 1 =>
              /\ Cardinality({k \in 1..Len(d_out) : d_out[k].kind = "newline"}) = 1
              /\ \A k \in EntryCells : d_out[k].padding = 0

HexDigits == "0123456789abcdef"

HexValue(ch) == (CHOOSE i \in 1..16 : CharAt(HexDigits, i) = ch) - 1

\* The bytes a string of hexadecimal digits stands for.
HexBytes(h) ==
    [i \in 1..(Len(h) \div 2) |->
        16 * HexValue(CharAt(h, 2 * i - 1)) + HexValue(CharAt(h, 2 * i))]

\* C15: the printed width of an entry is the display width of its glyph + 1 +
\* the display width of its name + 3 when it has a status tag.
C15_PrintedWidthCountsGlyph ==
    LaidOut =>
        \A i \in 1..Len(d_entries) :
            d_entry_widths[i] =
                RunWidth(HexBytes(d_entries[i].emoji), 1) + 1
                    + RunWidth(d_entries[i].name, 1)
                    + (IF d_entries[i].git_status # "" THEN 3 ELSE 0)

\* The width of what d_out[1..k] holds of row r: printed widths and padding.
RECURSIVE RowWidthUpTo(_, _)
RowWidthUpTo(r, k) ==
    IF k = 0 THEN 0
    ELSE RowWidthUpTo(r, k - 1)
            + (IF d_out[k].kind = "entry" /\ d_out[k].row = r
               THEN d_entry_widths[d_out[k].index + 1] + d_out[k].padding
               ELSE 0)

RowWidth(r) == RowWidthUpTo(r, Len(d_out))

\* C22: when the widest entry's printed width is at most the terminal width,
\* every row written, measured as the printed widths of its entries plus the
\* padding written after them, is at most the terminal width.
C22_RowsFitTerminal ==
    (LaidOut /\ MaxEntryWidth <= d_term_width) =>
        \A r \in 0..(d_rows - 1) : RowWidth(r) <= d_term_width

C22_Witness ==
    /\ Printed
    /\ d_term_width = 40
    /\ MaxEntryWidth = 10
    /\ d_num_columns = 3
    /\ RowWidth(0) = 34

\* The entries display_entries places in column c (0-based), by flat index.
ColumnMembers(c) == {i \in 0..(Len(d_entries) - 1) : i \div d_rows = c}

\* C26: each column's width is the largest printed width among the entries
\* placed in that column, so for every printed cell the column's width minus
\* the printed width is not negative and the padding count does not wrap.
C26_ColumnWidthIsMaximum ==
    LaidOut =>
        /\ \A c \in 0..(d_num_columns - 1) :
              /\ \A i \in ColumnMembers(c) : d_entry_widths[i + 1] <= d_column_widths[c + 1]
              /\ ColumnMembers(c) # {} =>
                    \E i \in ColumnMembers(c) : d_entry_widths[i + 1] = d_column_widths[c + 1]
        /\ \A k \in EntryCells :
              /\ d_column_widths[d_out[k].col + 1] - d_entry_widths[d_out[k].index + 1] >= 0
              /\ d_out[k].padding >= 0

C26_Witness ==
    /\ Printed
    /\ \E k \in EntryCells :
          /\ d_out[k].col < d_num_columns - 1
          /\ d_column_widths[d_out[k].col + 1] > d_entry_widths[d_out[k].index + 1]
          /\ d_out[k].padding = d_column_widths[d_out[k].col + 1]
                                    - d_entry_widths[d_out[k].index + 1] + SPACING

-----------------------------------------------------------------------------
(* Properties of a run of main *)

\* The positions of the events of one kind in the run's log.
LogKinds(kind) == {i \in 1..Len(r_log) : r_log[i].kind = kind}

\* The entry rows display_entries has written.
EntryRows == {k \in 1..Len(d_out) : d_out[k].kind = "entry"}

\* C16: in every run, every classification step precedes the sort, and the
\* sort precedes the first output of the listing, in the grid (d_out) and in
\* the long listing (the rows of the log).
C16_ClassifiedAndSortedBeforeOutput ==
    /\ \A c \in LogKinds("classify") : \A s \in LogKinds("sort") : c < s
    /\ \A p \in LogKinds("row") : \E s \in LogKinds("sort") : s < p
    /\ d_out # <<>> => LogKinds("sort") # {}

\* lstat failed for an entry of the run.
ProbeFailed == LogKinds("warning") # {} \/ LogKinds("unable") # {}

\* The run is a grid listing that ended.
GridEnded == r_pc = "done" /\ r_exit # "none" /\ LogKinds("classify") # {}
                 /\ ~r_args.show_longlisting

\* C17: when lstat failed for one entry of a grid listing, the run (whose
\* layout arrays could be allocated) still sorts the other gathered entries
\* and displays each of them, whatever kind of target the failing entry
\* came from.
C17_ProbeFailureOmitsOnlyThatEntry ==
    (GridEnded /\ ProbeFailed /\ d_err = <<>>) =>
        /\ r_entries # <<>> => LogKinds("sort") # {}
        /\ \A i \in 1..Len(r_entries) : \E k \in EntryRows : d_out[k].index = i - 1

\* C18: when display_entries could not allocate a layout array, the failure
\* is on standard error, no entry row was written, and main returns a
\* non-zero status.
C18_AllocationFailureExitsNonZero ==
    (r_pc = "done" /\ d_pc = "returned" /\ d_rows = 0) =>
        /\ d_err # <<>>
        /\ EntryRows = {}
        /\ r_exit = "EXIT_FAILURE"

\* argv holds an option parse_args does not recognise.
RecognisedOptions == {"-v", "--version", "-h", "--help", "-l", "--long", "-a", "--analytics"}

UnrecognisedOption ==
    \E i \in 1..Len(r_argv) :
        /\ Len(r_argv[i]) > 0
        /\ CharAt(r_argv[i], 1) = "-"
        /\ r_argv[i] \notin RecognisedOptions

\* C19: a run in which an error occurred (an unrecognised option on the
\* command line, wherever it stands; a target that could not be processed,
\* whatever was gathered before; getcwd failing) returns EXIT_FAILURE.
C19_ErrorMeansExitFailure ==
    (r_pc = "done"
        /\ (UnrecognisedOption \/ LogKinds("Error processing") # {}
                \/ LogKinds("getcwd() error") # {})) =>
        r_exit = "EXIT_FAILURE"

\* The run lists nothing that integrate_git_status tags: it is outside a work
\* tree, in the device directory, or it lists file and glob targets only.
Unversioned ==
    \/ ~r_fs.git
    \/ Len(r_args.targets) = 0 /\ r_fs.cwd = "/dev"
    \/ /\ Len(r_args.targets) > 0
       /\ \A i \in 1..Len(r_args.targets) : is_directory(r_fs, r_args.targets[i]) = 0

\* C20: once display_entries has read the status tags (entry_widths is
\* filled), every entry's tag had been written before; and in a run that
\* lists nothing under version control every printed entry has no marker.
C20_StatusTagWrittenBeforeRead ==
    (r_pc = "display" /\ d_entry_widths # <<>>) =>
        /\ \A i \in 1..Len(r_entries) : r_entries[i].git_written
        /\ Unversioned => \A k \in EntryRows : d_out[k].marker = ""

\* The device directory is what the run lists: as the working directory
\* with no target, or given as a target.
ListsDeviceDirectory ==
    IF Len(r_args.targets) = 0 THEN r_fs.cwd = "/dev"
    ELSE \E i \in 1..Len(r_args.targets) : r_args.targets[i] = "/dev"

\* Every gathered entry carries the glyph the device rules give it.
DeviceRulesUsed ==
    \A i \in 1..Len(r_entries) :
        r_entries[i].emoji = DevEntry(r_fs, r_entries[i].name, "").emoji

\* C30: whenever a run that lists the device directory reaches
\* display_entries, the entries were classified by the device rules exactly
\* when the layout uses the column cap get_max_columns gives for /dev.
C30_DeviceOverridesTogether ==
    (r_pc = "display" /\ ListsDeviceDirectory) =>
        (DeviceRulesUsed <=> get_max_columns(d_dir) = get_max_columns("/dev"))

-----------------------------------------------------------------------------
(* Properties of the entries array *)

\* C28: while entries are added, 0 <= num_entries <= current_size; the
\* element about to be filled has an index below the capacity; and the
\* capacity was the function's initial value at first and has doubled at
\* every change since.
C28_CountWithinCapacity ==
    /\ 0 <= a_num_entries /\ a_num_entries <= a_current_size
    /\ a_pc = "write" => a_num_entries < a_current_size
    /\ a_current_size = (IF a_sizes = <<>> THEN 0 ELSE a_sizes[Len(a_sizes)])
    /\ a_sizes # <<>> => a_sizes[1] \in {INITIAL_ENTRIES, INITIAL_DEV_ENTRIES}
    /\ \A i \in 1..(Len(a_sizes) - 1) : a_sizes[i + 1] = 2 * a_sizes[i]

\* An entry is about to be written after the capacity has doubled twice.
C28_Witness ==
    /\ a_pc = "write"
    /\ Len(a_sizes) = 3
    /\ a_num_entries = a_sizes[2]

=============================================================================
